---- MODULE Spec2Model ----
(***************************************************************************)
(* A model of the search core of perseus: the concurrent path finder       *)
(* (pathFinder.findPathsBetween / pathFinder.xxx) together with its        *)
(* consumer (runFindPathsCommand), the paged tree walker                   *)
(* (walkDependencies), the flattening of its tree (flattenTree), the retry *)
(* wrapper (retryOp) and the handling of --max-depth by the commands.      *)
(***************************************************************************)
EXTENDS Integers, Sequences, FiniteSets, TLC

(***************************************************************************)
(* Bounds of the model.                                                    *)
(***************************************************************************)
\* runtime.NumCPU() of the machine the client runs on
NumCPU == 2
\* the largest --max-depth explored
MaxDepthBound == 4

(***************************************************************************)
(* module.Version values: a path and a version.                            *)
(***************************************************************************)
Mod(p, v) == [Path |-> p, Version |-> v]

mA == Mod("a", "v1")
mB == Mod("b", "v1")
mC == Mod("c", "v1")
mD == Mod("d", "v1")
mD2 == Mod("d", "v2")

Modules == {mA, mB, mC, mD, mD2}

\* A dependency graph: for every module the ordered list of its direct
\* dependencies as the store returns them.
NoDeps == [m \in Modules |-> <<>>]

\* a depends on b and c, b depends on d
GraphTree == [NoDeps EXCEPT ![mA] = <<mB, mC>>, ![mB] = <<mD>>]
\* a -> b -> c -> d
GraphChain == [NoDeps EXCEPT ![mA] = <<mB>>, ![mB] = <<mC>>, ![mC] = <<mD>>]
\* a depends on b and c, both depend on d
GraphDiamond == [NoDeps EXCEPT ![mA] = <<mB, mC>>, ![mB] = <<mD>>, ![mC] = <<mD>>]
\* a and b depend on each other
GraphCycle == [NoDeps EXCEPT ![mA] = <<mB>>, ![mB] = <<mA>>]
\* a depends on two versions of d, d@v1 depends on d@v2
GraphVersions == [NoDeps EXCEPT ![mA] = <<mD, mD2>>, ![mD] = <<mD2>>]
\* a depends on itself
GraphSelf == [NoDeps EXCEPT ![mA] = <<mA>>]
\* a -> b -> c, c depends on two versions of d
GraphFork == [NoDeps EXCEPT ![mA] = <<mB>>, ![mB] = <<mC>>, ![mC] = <<mD, mD2>>]

Graphs == {NoDeps, GraphTree, GraphChain, GraphDiamond, GraphCycle, GraphVersions, GraphSelf,
           GraphFork}

\* the targets searched for: a path with or without a version
Targets == {Mod("d", ""), Mod("d", "v2"), Mod("a", ""), Mod("z", "")}

(***************************************************************************)
(* The store's paging (internal/store/paging.go, getDependx).              *)
(***************************************************************************)
\* the empty continuation token
NoToken == <<>>

\* cap on the fetches of one walkDependencies loop explored by the model
MaxFetches == 3

pageTokenKey(m) == <<"moduleversions", m.Path, m.Version>>

\* encodePageToken as it would be if it gave no token for a page without
\* limit
encodePageTokenNoneWithoutLimit(key, n, offset, page) ==
    IF n < page \/ page = 0 THEN NoToken ELSE <<key, offset + n>>

\* encodePageToken: no token when the page was not filled, else the
\* position after the n rows returned
encodePageToken(key, n, offset, page) ==
    IF n < page THEN NoToken ELSE <<key, offset + n>>

\* decodePageToken: the offset of a token (the caller checked the key)
decodePageToken(tok) == tok[2]

\* the rows of s after the first offset ones, at most count of them when
\* count > 0 (OFFSET/LIMIT of getDependx)
Rows(s, offset, count) ==
    LET last == IF count > 0 /\ offset + count < Len(s) THEN offset + count ELSE Len(s)
    IN  IF offset >= Len(s) THEN <<>> ELSE SubSeq(s, offset + 1, last)

\* getDependx / QueryDependencies: one page of the direct dependencies of m
getDependx(g, m, pageToken, count) ==
    LET offset == IF pageToken # NoToken THEN decodePageToken(pageToken) ELSE 0
        rows   == Rows(g[m], offset, count)
    IN  [Modules |-> rows,
         NextPageToken |-> encodePageToken(pageTokenKey(m), Len(rows), offset, count)]

\* The paging loop of walkDependencies for one node,
\*   for done := false; !done; done = (req.PageToken != "") { ... }
\* run to its end: the edges accumulated and the number of fetches. The
\* loop is cut after MaxFetches fetches (returned = FALSE).
RECURSIVE drainPages(_, _, _, _, _, _)
drainPages(g, m, count, pageToken, acc, fetches) ==
    LET resp == getDependx(g, m, pageToken, count)
        deps == acc \o resp.Modules
        done == (resp.NextPageToken # NoToken)
    IN  IF done THEN [returned |-> TRUE, Deps |-> deps, fetches |-> fetches + 1]
        ELSE IF fetches + 1 >= MaxFetches
             THEN [returned |-> FALSE, Deps |-> deps, fetches |-> fetches + 1]
             ELSE drainPages(g, m, count, resp.NextPageToken, deps, fetches + 1)

\* the PageSize the client's request carries: walkDependencies leaves it unset
ClientPageSize == 0

(***************************************************************************)
(* Errors as the consumer can tell them apart: whether errors.Is(e,        *)
(* context.Canceled) holds and the RPC code connect.CodeOf(e) reports.     *)
(***************************************************************************)
NilErr == [isNil |-> TRUE, wrapsCanceled |-> FALSE, code |-> "unknown"]
\* ctx.Err() of a cancelled context
CtxCanceledErr == [isNil |-> FALSE, wrapsCanceled |-> TRUE, code |-> "unknown"]
\* an RPC ended with the Canceled code by the peer: it does not wrap context.Canceled
RpcCanceledErr == [isNil |-> FALSE, wrapsCanceled |-> FALSE, code |-> "canceled"]
\* any other failure of a query
QueryFailedErr == [isNil |-> FALSE, wrapsCanceled |-> FALSE, code |-> "internal"]

errorsIsCanceled(e) == e.wrapsCanceled
CodeOf(e) == IF e.isNil THEN "unknown" ELSE e.code

(***************************************************************************)
(* State.                                                                  *)
(***************************************************************************)
VARIABLES
    graph,      \* the dependency graph the server holds
    to,         \* the target of find-paths
    maxDepth,   \* pf.maxDepth
    showAll,    \* the --all flag
    failing,    \* the modules whose dependency query fails
    task,       \* the EXPAND tasks (goroutines running xxx), by chain
    sem,        \* free slots of pf.sem
    semClosed,  \* pf.sem was closed
    wg,         \* the counter of pf.wg
    rootpc,     \* the goroutine of findPathsBetween: "run", "wait", "exit"
    closes,     \* how many times close(results) ran
    cancelled,  \* ctx is cancelled
    cancelledAfter, \* how many paths the consumer held when it cancelled (-1: never)
    cpc,        \* the consumer loop of runFindPathsCommand
    paths,      \* the paths the consumer collected
    ret,        \* what runFindPathsCommand returned
    output,     \* what the deferred function wrote
    slices,     \* the chains and paths as Go slices: backing arrays and headers
    pageSize,   \* the page size the server applies to QueryDependencies
    failAt,     \* which QueryDependencies call of the walk fails (0: none)
    stack,      \* the walkDependencies invocations in progress, innermost last
    walked,     \* what the outermost walkDependencies returned
    ctxDone,    \* the context of the walk is cancelled
    queries,    \* the QueryDependencies calls issued so far
    fetchLog,   \* those calls: module, depth, token sent, token returned
    cmd,        \* the sub-command that runs: "find-paths", "query", or "" before it starts
    list,       \* what flattenTree returned to the query command
    plan,       \* what op returns on each of its calls under retryOp
    attempt,    \* the element of backoffDelays the loop of retryOp is at
    calls,      \* how many times retryOp called op
    slept,      \* the waits of retryOp, in milliseconds
    rtpc,       \* where retryOp stands: "idle", "call", "wait", "returned"
    rtret,      \* what retryOp returned
    edges,      \* the rows of module_dependency: (dependent, dependee)
    latest,     \* the dependencies of the last successful update of each module version
    responses,  \* what each configured module proxy answers, in the order of p.proxies
    pxret       \* the operation of Proxy that ran and what it returned

pfvars == <<graph, to, maxDepth, showAll, failing, task, sem, semClosed, wg, rootpc,
            closes, cancelled, cancelledAfter, cpc, paths, ret, output, slices>>

wkvars == <<pageSize, failAt, stack, walked, ctxDone, queries, fetchLog>>

rtvars == <<plan, attempt, calls, slept, rtpc, rtret>>

\* the command, the flattened list and the retry wrapper
\* the store and the module proxies
services == <<edges, latest, responses, pxret>>

extras == <<cmd, list, rtvars, services>>

vars == <<pfvars, wkvars, extras>>

from == mA

Last(s) == s[Len(s)]
elems(seq) == {seq[i] : i \in 1..Len(seq)}

\* a result of the stream: a path or an error
PathResult(p) == [path |-> p, err |-> NilErr]
ErrResult(e) == [path |-> <<>>, err |-> e]
NoResult == [path |-> <<>>, err |-> NilErr]

\* the return of runFindPathsCommand, and what its deferred function wrote
NotReturned == [done |-> FALSE, err |-> NilErr]
Returned(e) == [done |-> TRUE, err |-> e]
NoOutput == [written |-> FALSE, paths |-> <<>>]
Written(ps) == [written |-> TRUE, paths |-> ps]

\* the fields of a task: where it stands in xxx, the child it handles, the
\* result it is sending
Task(pc, i, out) == [pc |-> pc, i |-> i, out |-> out]

Chains == DOMAIN task
depthOf(chain) == Len(chain)

\* walkDependencies(ctx, pf.c, from, dependencies, 1, 1, status) against the
\* store: the direct dependencies of the last module of the chain
walkDirect(chain) == drainPages(graph, Last(chain), ClientPageSize, NoToken, <<>>, 0)
depsOf(chain) == walkDirect(chain).Deps

\* the match as it would be without the comparison of the versions
matchesIgnoringVersion(d) == d.Path = to.Path

\* the match as it would be without the comparison of the paths
matchesAnyPath(d) == to.Version = "" \/ d.Version = to.Version

\* d.Module.Path == to.Path && (to.Version == "" || d.Module.Version == to.Version)
matches(d) == d.Path = to.Path /\ (to.Version = "" \/ d.Version = to.Version)

\* A Go slice is a header (backing array, len, cap) on an array of the heap.
\* slices.arrays are the backing arrays, slices.chain the chain each task
\* was given, slices.handed the paths sent on the stream, each with the
\* modules it held when it was sent.
Slice(arr, len, cap) == [arr |-> arr, len |-> len, cap |-> cap]
ZeroMod == Mod("", "")
read(arrays, s) == SubSeq(arrays[s.arr], 1, s.len)

\* cc := make([]module.Version, len(chain)); copy(cc, chain)
makeCopy(arrays, s, id) ==
    [arrays |-> (id :> read(arrays, s)) @@ arrays, slice |-> Slice(id, s.len, s.len)]

\* the capacity growslice gives an array of n elements that is full
growslice(n) == IF n = 0 THEN 1 ELSE n + n

\* append(s, x): in place when the array has room after s, else into a new
\* array, named id, of the grown capacity
append(arrays, s, x, id) ==
    IF s.len < s.cap
    THEN [arrays |-> [arrays EXCEPT ![s.arr][s.len + 1] = x],
          slice |-> Slice(s.arr, s.len + 1, s.cap)]
    ELSE [arrays |-> (id :> (read(arrays, s) \o <<x>>
                               \o [k \in 1..(growslice(s.cap) - s.len - 1) |-> ZeroMod]))
                       @@ arrays,
          slice |-> Slice(id, s.len + 1, growslice(s.cap))]

\* append(chain, x) as it would be without the copy
appendSharingChain(arrays, s, x, id) == append(arrays, s, x, id)

\* "data sharing == bad": append(cc, x) on a copy cc of the chain; the copy
\* is full, so that append allocates, and cc is left to the collector
appendToCopy(arrays, s, x, id) ==
    LET cc == makeCopy(arrays, s, <<"cc">>)
        r == append(cc.arrays, cc.slice, x, id)
    IN  IF r.slice.arr = <<"cc">> THEN r
        ELSE [arrays |-> [a \in DOMAIN r.arrays \ {<<"cc">>} |-> r.arrays[a]],
              slice |-> r.slice]

\* no search is running
NoSlices == [arrays |-> <<>>, chain |-> <<>>, handed |-> {}]
\* []module.Version{from}
RootSlices ==
    [arrays |-> (<<"chain", <<from>>>> :> <<from>>),
     chain |-> (<<from>> :> Slice(<<"chain", <<from>>>>, 1, 1)),
     handed |-> {}]

\* the path of rc <- pathFinderResult{path: append(cc, d.Module)}, sent by
\* the task of chain
pathSlice(chain, d) ==
    appendToCopy(slices.arrays, slices.chain[chain], d, <<"path", Append(chain, d)>>)
handPath(chain, d) ==
    LET r == pathSlice(chain, d)
    IN  [slices EXCEPT !.arrays = r.arrays,
                       !.handed = @ \cup {[slice |-> r.slice, value |-> read(r.arrays, r.slice)]}]

\* pf.xxx(ctx, append(cc, c), to, depth+1, rc) in the goroutine of child c
giveChain(chain, c) ==
    LET r == appendToCopy(slices.arrays, slices.chain[chain], c, <<"chain", Append(chain, c)>>)
    IN  [slices EXCEPT !.arrays = r.arrays,
                       !.chain = (Append(chain, c) :> r.slice) @@ @]

\* a dependencyTreeNode; the zero value is what "return node, ..." gives
\* before node.Module is set
Node(m, direct, deps) == [Module |-> m, Direct |-> direct, Deps |-> deps]
ZeroNode == Node(Mod("", ""), FALSE, <<>>)

NotWalked == [done |-> FALSE, node |-> ZeroNode, err |-> NilErr]
WalkReturned(n, e) == [done |-> TRUE, node |-> n, err |-> e]

\* no walk in progress
WalkIdle ==
    /\ pageSize = ClientPageSize
    /\ failAt = 0
    /\ stack = <<>>
    /\ walked = NotWalked
    /\ ctxDone = FALSE
    /\ queries = 0
    /\ fetchLog = <<>>

\* flattenTree has not run
NotFlattened == [done |-> FALSE, items |-> <<>>]
Flattened(items) == [done |-> TRUE, items |-> items]

\* what retryOp returns: a result and an error
RetryNotReturned == [done |-> FALSE, result |-> "", err |-> NilErr]
RetryReturned(result, e) == [done |-> TRUE, result |-> result, err |-> e]

\* no update has reached the store and no proxy operation has run
NoProxyResult == [op |-> "", value |-> <<>>, failed |-> FALSE, wraps |-> "", asked |-> 0]
ServicesIdle ==
    /\ edges = {}
    /\ latest = <<>>
    /\ responses = <<>>
    /\ pxret = NoProxyResult

\* retryOp is not running
RetryIdle ==
    /\ plan = <<>>
    /\ attempt = 0
    /\ calls = 0
    /\ slept = <<>>
    /\ rtpc = "idle"
    /\ rtret = RetryNotReturned

InitPF ==
    /\ cmd = "find-paths"
    /\ list = NotFlattened
    /\ RetryIdle
    /\ ServicesIdle
    /\ graph \in Graphs
    /\ to \in Targets
    /\ maxDepth \in 1..MaxDepthBound
    /\ showAll \in BOOLEAN
    /\ failing \in {{}, {mB}}
    /\ task = (<<from>> :> Task("pending", 0, NoResult))
    /\ slices = RootSlices
    /\ sem = NumCPU
    /\ semClosed = FALSE
    /\ wg = 1
    /\ rootpc = "run"
    /\ closes = 0
    /\ cancelled = FALSE
    /\ cancelledAfter = -1
    /\ cpc = "recv"
    /\ paths = <<>>
    /\ ret = NotReturned
    /\ output = NoOutput
    /\ WalkIdle

\* what a step of the path finder leaves alone: its inputs and the walker
inputs == <<graph, to, maxDepth, showAll, failing, wkvars, extras>>
consumer == <<cpc, paths, ret, output, cancelledAfter>>

\* afterChild as it would be with the depth test off by one
afterChildOneDeeper(chain, i) ==
    IF i < Len(depsOf(chain)) THEN Task("scan", i + 1, NoResult)
    ELSE IF depthOf(chain) <= maxDepth + 1 /\ Len(depsOf(chain)) > 0
         THEN Task("spawn", 1, NoResult)
         ELSE Task("release", 0, NoResult)

\* where xxx goes once child i is handled: the next child, then the spawn
\* loop when depth <= pf.maxDepth, then the return
afterChild(chain, i) ==
    IF i < Len(depsOf(chain)) THEN Task("scan", i + 1, NoResult)
    ELSE IF depthOf(chain) <= maxDepth /\ Len(depsOf(chain)) > 0
         THEN Task("spawn", 1, NoResult)
         ELSE Task("release", 0, NoResult)

\* Acquire as it would be if the task did not wait for a free slot
AcquireNoWait(chain) ==
    /\ task[chain].pc = "pending"
    /\ sem' = sem - 1
    /\ task' = [task EXCEPT ![chain] =
                  IF cancelled THEN Task("send", 0, ErrResult(CtxCanceledErr))
                  ELSE Task("query", 0, NoResult)]
    /\ UNCHANGED <<inputs, semClosed, wg, rootpc, closes, cancelled, consumer, slices>>

\* <-pf.sem, then the select on ctx.Done() and the same select at the entry
\* of walkDependencies; the query is issued when ctx is not cancelled
Acquire(chain) ==
    /\ task[chain].pc = "pending"
    /\ sem > 0
    /\ sem' = sem - 1
    /\ task' = [task EXCEPT ![chain] =
                  IF cancelled THEN Task("send", 0, ErrResult(CtxCanceledErr))
                  ELSE Task("query", 0, NoResult)]
    /\ UNCHANGED <<inputs, semClosed, wg, rootpc, closes, cancelled, consumer, slices>>

\* the results a query in flight can come back with
queryOutcomes(chain) ==
    IF Last(chain) \in failing THEN {"failed"}
    ELSE IF cancelled THEN {"ok", "ctx", "rpc"}
    ELSE {"ok"}

\* walkDependencies returns
QueryReturn(chain) ==
    /\ task[chain].pc = "query"
    /\ \E o \in queryOutcomes(chain) :
         task' = [task EXCEPT ![chain] =
                    CASE o = "failed" -> Task("send", 0, ErrResult(QueryFailedErr))
                      [] o = "ctx" -> Task("send", 0, ErrResult(CtxCanceledErr))
                      [] o = "rpc" -> Task("send", 0, ErrResult(RpcCanceledErr))
                      [] o = "ok" -> afterChild(chain, 0)]
    /\ UNCHANGED <<inputs, sem, semClosed, wg, rootpc, closes, cancelled, consumer, slices>>

\* one round of "for _, d := range deps.Deps": the select on ctx.Done(),
\* the match against to, children = append(children, d.Module)
Scan(chain) ==
    /\ task[chain].pc = "scan"
    /\ LET i == task[chain].i
           d == depsOf(chain)[i]
           found == ~cancelled /\ matches(d)
           path == pathSlice(chain, d)
       IN  /\ slices' = IF found THEN handPath(chain, d) ELSE slices
           /\ task' = [task EXCEPT ![chain] =
                        IF cancelled THEN Task("send", i, ErrResult(CtxCanceledErr))
                        ELSE IF found
                             THEN Task("send", i, PathResult(read(path.arrays, path.slice)))
                        ELSE afterChild(chain, i)]
    /\ UNCHANGED <<inputs, sem, semClosed, wg, rootpc, closes, cancelled, consumer>>

\* "context cancellation is not a failure": the test of runFindPathsCommand
\* on a result's error; err is the function's named result, which is nil here
isCancellation(perr, err) == errorsIsCanceled(perr) \/ CodeOf(err) = "canceled"

\* consumerReturns as it would be if the deferred function wrote the paths
\* whatever the error
consumerReturnsAlwaysWrites(e) ==
    /\ ret' = Returned(e)
    /\ output' = Written(paths)
    /\ cancelled' = TRUE
    /\ cpc' = "returned"
    /\ UNCHANGED <<paths, cancelledAfter>>

\* runFindPathsCommand returns e: the deferred function writes the paths
\* when e is nil, and the deferred cancel() runs
consumerReturns(e) ==
    /\ ret' = Returned(e)
    /\ output' = IF e.isNil THEN Written(paths) ELSE NoOutput
    /\ cancelled' = TRUE
    /\ cpc' = "returned"
    /\ UNCHANGED <<paths, cancelledAfter>>

\* rc <- result meets "for p := range pf.findPathsBetween(...)": the task
\* goes on (a path) or returns (an error); the consumer runs the loop body
\* up to cancel()
Recv(chain) ==
    /\ task[chain].pc = "send"
    /\ cpc = "recv"
    /\ closes = 0
    /\ LET p == task[chain].out
       IN  /\ task' = [task EXCEPT ![chain] =
                         IF p.err.isNil THEN afterChild(chain, task[chain].i)
                         ELSE Task("release", 0, NoResult)]
           /\ IF ~p.err.isNil
              THEN IF isCancellation(p.err, NilErr)
                   THEN consumerReturns(NilErr)
                   ELSE consumerReturns(p.err)
              ELSE /\ paths' = Append(paths, p.path)
                   /\ cpc' = IF showAll THEN "recv" ELSE "cancel"
                   /\ UNCHANGED <<ret, output, cancelled, cancelledAfter>>
    /\ UNCHANGED <<inputs, sem, semClosed, wg, rootpc, closes, slices>>

\* if !showAll { cancel() }
Cancel ==
    /\ cpc = "cancel"
    /\ cancelled' = TRUE
    /\ cancelledAfter' = IF cancelledAfter = -1 THEN Len(paths) ELSE cancelledAfter
    /\ cpc' = "recv"
    /\ UNCHANGED <<inputs, task, sem, semClosed, wg, rootpc, closes, paths, ret, output, slices>>

\* the range loop ends on the closed stream: return nil
RangeEnd ==
    /\ cpc = "recv"
    /\ closes > 0
    /\ consumerReturns(NilErr)
    /\ UNCHANGED <<inputs, task, sem, semClosed, wg, rootpc, closes, slices>>

\* Spawn as it would be if the loop ended after the first child
SpawnFirstChildOnly(chain) ==
    /\ task[chain].pc = "spawn"
    /\ LET c == depsOf(chain)[task[chain].i]
       IN  /\ task' = (Append(chain, c) :> Task("pending", 0, NoResult))
                       @@ [task EXCEPT ![chain] = Task("release", 0, NoResult)]
           /\ slices' = giveChain(chain, c)
    /\ wg' = wg + 1
    /\ UNCHANGED <<inputs, sem, semClosed, rootpc, closes, cancelled, consumer>>

\* Spawn as it would be without pf.wg.Add(1)
SpawnNoAdd(chain) ==
    /\ task[chain].pc = "spawn"
    /\ LET j == task[chain].i
           c == depsOf(chain)[j]
           next == IF j < Len(depsOf(chain)) THEN Task("spawn", j + 1, NoResult)
                   ELSE Task("release", 0, NoResult)
       IN  /\ task' = (Append(chain, c) :> Task("pending", 0, NoResult))
                       @@ [task EXCEPT ![chain] = next]
           /\ slices' = giveChain(chain, c)
    /\ UNCHANGED <<inputs, wg, sem, semClosed, rootpc, closes, cancelled, consumer>>

\* one round of "for _, c := range children": pf.wg.Add(1) and the go
\* statement, the child starting with its own copy of the chain
Spawn(chain) ==
    /\ task[chain].pc = "spawn"
    /\ LET j == task[chain].i
           c == depsOf(chain)[j]
           next == IF j < Len(depsOf(chain)) THEN Task("spawn", j + 1, NoResult)
                   ELSE Task("release", 0, NoResult)
       IN  /\ task' = (Append(chain, c) :> Task("pending", 0, NoResult))
                       @@ [task EXCEPT ![chain] = next]
           /\ slices' = giveChain(chain, c)
    /\ wg' = wg + 1
    /\ UNCHANGED <<inputs, sem, semClosed, rootpc, closes, cancelled, consumer>>

\* xxx returns: the deferred pf.sem <- struct{}{}
Release(chain) ==
    /\ task[chain].pc = "release"
    /\ sem' = sem + 1
    /\ task' = [task EXCEPT ![chain] = Task("exit", 0, NoResult)]
    /\ UNCHANGED <<inputs, semClosed, wg, rootpc, closes, cancelled, consumer, slices>>

\* Done as it would be with the child goroutines' pf.wg.Done() left out
DoneOnlyRoot(chain) ==
    /\ task[chain].pc = "exit"
    /\ wg' = IF chain = <<from>> THEN wg - 1 ELSE wg
    /\ task' = [task EXCEPT ![chain] = Task("done", 0, NoResult)]
    /\ rootpc' = IF chain = <<from>> THEN "wait" ELSE rootpc
    /\ UNCHANGED <<inputs, sem, semClosed, closes, cancelled, consumer, slices>>

\* the deferred pf.wg.Done() of the goroutine; the root goroutine goes on
\* to pf.wg.Wait()
Done(chain) ==
    /\ task[chain].pc = "exit"
    /\ wg' = wg - 1
    /\ task' = [task EXCEPT ![chain] = Task("done", 0, NoResult)]
    /\ rootpc' = IF chain = <<from>> THEN "wait" ELSE rootpc
    /\ UNCHANGED <<inputs, sem, semClosed, closes, cancelled, consumer, slices>>

\* Close as it would be without pf.wg.Wait()
CloseNoWait ==
    /\ rootpc = "wait"
    /\ closes' = closes + 1
    /\ semClosed' = TRUE
    /\ rootpc' = "exit"
    /\ UNCHANGED <<inputs, task, sem, wg, cancelled, consumer, slices>>

\* pf.wg.Wait() returns; close(results); close(pf.sem)
Close ==
    /\ rootpc = "wait"
    /\ wg = 0
    /\ closes' = closes + 1
    /\ semClosed' = TRUE
    /\ rootpc' = "exit"
    /\ UNCHANGED <<inputs, task, sem, wg, cancelled, consumer, slices>>

NextPF ==
    \/ \E chain \in Chains : Acquire(chain)
    \/ \E chain \in Chains : QueryReturn(chain)
    \/ \E chain \in Chains : Scan(chain)
    \/ \E chain \in Chains : Recv(chain)
    \/ \E chain \in Chains : Spawn(chain)
    \/ \E chain \in Chains : Release(chain)
    \/ \E chain \in Chains : Done(chain)
    \/ Cancel
    \/ RangeEnd
    \/ Close

Spec == InitPF /\ [][NextPF]_vars

\* the Go scheduler runs a runnable goroutine
FairSpec == Spec /\ WF_vars(NextPF)

(***************************************************************************)
(* walkDependencies as the query command runs it: one frame per            *)
(* invocation, the innermost last.                                         *)
(***************************************************************************)
\* cap on the QueryDependencies calls of one walk explored by the model
MaxQueries == 6
\* the largest server page size explored (0: no limit)
MaxPageSize == 2

\* the latest QueryDependencies call of a walk that is made to fail
MaxFailAt == 3

\* a depends on b, c and d
GraphWide == [NoDeps EXCEPT ![mA] = <<mB, mC, mD>>]

\* a depends on b and d, b depends on d
GraphShared == [NoDeps EXCEPT ![mA] = <<mB, mD>>, ![mB] = <<mD>>]

WalkGraphs == Graphs \cup {GraphWide, GraphShared}

\* the invocation walkDependencies(ctx, client, mod, direction, depth, maxDepth, status)
Frame(mod, depth) ==
    [mod |-> mod, depth |-> depth, pc |-> "enter", node |-> ZeroNode,
     PageToken |-> NoToken, Modules |-> <<>>, NextPageToken |-> NoToken, k |-> 0,
     rnode |-> ZeroNode, rerr |-> NilErr]

top == stack[Len(stack)]
setTop(f) == [stack EXCEPT ![Len(stack)] = f]

\* "return n, e" of a frame
returning(f, n, e) == [f EXCEPT !.pc = "return", !.rnode = n, !.rerr = e]

\* "return dependencyTreeNode{}, err" as it would be if it returned the
\* tree built so far
abandonKeepingTree(f, e) == returning(f, f.node, e)

\* return dependencyTreeNode{}, err
abandon(f, e) == returning(f, ZeroNode, e)

\* if depth > maxDepth { return node, nil }
tooDeepOneMore(depth) == depth > maxDepth + 1
tooDeep(depth) == depth > maxDepth

InitWalk ==
    /\ cmd = "query"
    /\ list = NotFlattened
    /\ RetryIdle
    /\ ServicesIdle
    /\ graph \in WalkGraphs
    /\ maxDepth \in 1..MaxDepthBound
    /\ pageSize \in 0..MaxPageSize
    /\ failAt \in 0..MaxFailAt
    /\ stack = <<Frame(from, 1)>>
    /\ walked = NotWalked
    /\ ctxDone = FALSE
    /\ queries = 0
    /\ fetchLog = <<>>
    /\ to = Mod("z", "")
    /\ showAll = FALSE
    /\ failing = {}
    /\ task = <<>>
    /\ slices = NoSlices
    /\ sem = NumCPU
    /\ semClosed = FALSE
    /\ wg = 0
    /\ rootpc = "exit"
    /\ closes = 0
    /\ cancelled = FALSE
    /\ cancelledAfter = -1
    /\ cpc = "returned"
    /\ paths = <<>>
    /\ ret = NotReturned
    /\ output = NoOutput

\* what a step of the walk leaves alone
walkFixed == <<graph, to, maxDepth, showAll, failing, task, sem, semClosed, wg, rootpc,
               closes, cancelled, cancelledAfter, cpc, paths, ret, output, slices, pageSize, failAt,
               cmd, list, rtvars, services>>

\* the entry of walkDependencies as it would be without the select on ctx.Done()
WalkEnterNoSelect ==
    /\ stack # <<>>
    /\ top.pc = "enter"
    /\ stack' = setTop(
         IF tooDeep(top.depth) THEN returning(top, top.node, NilErr)
         ELSE [top EXCEPT !.pc = "fetch",
                          !.node = Node(top.mod, top.depth = 1, <<>>),
                          !.PageToken = NoToken])
    /\ UNCHANGED <<walkFixed, walked, ctxDone, queries, fetchLog>>

\* the entry of walkDependencies: the select on ctx.Done(), the depth test,
\* node.Module and node.Direct, the request with an empty page token
WalkEnter ==
    /\ stack # <<>>
    /\ top.pc = "enter"
    /\ stack' = setTop(
         IF ctxDone THEN returning(top, top.node, CtxCanceledErr)
         ELSE IF tooDeep(top.depth) THEN returning(top, top.node, NilErr)
         ELSE [top EXCEPT !.pc = "fetch",
                          !.node = Node(top.mod, top.depth = 1, <<>>),
                          !.PageToken = NoToken])
    /\ UNCHANGED <<walkFixed, walked, ctxDone, queries, fetchLog>>

\* resp, err := client.QueryDependencies(ctx, &req)
WalkFetch ==
    /\ stack # <<>>
    /\ top.pc = "fetch"
    /\ queries < MaxQueries
    /\ queries' = queries + 1
    /\ LET resp == getDependx(graph, top.mod, top.PageToken, pageSize)
       IN  IF queries + 1 = failAt
           THEN /\ stack' = setTop(abandon(top, QueryFailedErr))
                /\ UNCHANGED fetchLog
           ELSE IF ctxDone
           THEN /\ stack' = setTop(abandon(top, CtxCanceledErr))
                /\ UNCHANGED fetchLog
           ELSE /\ stack' = setTop([top EXCEPT !.pc = "range", !.k = 1,
                                               !.Modules = resp.Modules,
                                               !.NextPageToken = resp.NextPageToken])
                /\ fetchLog' = Append(fetchLog,
                                 [mod |-> top.mod, depth |-> top.depth,
                                  PageToken |-> top.PageToken,
                                  Modules |-> resp.Modules,
                                  NextPageToken |-> resp.NextPageToken])
    /\ UNCHANGED <<walkFixed, walked, ctxDone>>

\* "for _, dep := range resp.Modules": the recursive call for the next
\* module of the page; after the last one req.PageToken = resp.NextPageToken
\* and the loop's post statement done = (req.PageToken != "")
WalkRange ==
    /\ stack # <<>>
    /\ top.pc = "range"
    /\ IF top.k <= Len(top.Modules)
       THEN stack' = Append(setTop([top EXCEPT !.pc = "call"]),
                            Frame(top.Modules[top.k], top.depth + 1))
       ELSE LET done == (top.NextPageToken # NoToken)
            IN  stack' = setTop(
                  IF done THEN returning(top, top.node, NilErr)
                  ELSE [top EXCEPT !.pc = "fetch", !.PageToken = top.NextPageToken])
    /\ UNCHANGED <<walkFixed, walked, ctxDone, queries, fetchLog>>

\* an invocation returns: to the caller, which gives up on an error and
\* else appends dn, with the Deps of what was returned, to node.Deps; or,
\* for the outermost one, to the command
WalkReturn ==
    /\ stack # <<>>
    /\ top.pc = "return"
    /\ IF Len(stack) = 1
       THEN /\ stack' = <<>>
            /\ walked' = WalkReturned(top.rnode, top.rerr)
       ELSE LET caller == stack[Len(stack) - 1]
                dn == Node(top.mod, FALSE, top.rnode.Deps)
                resumed ==
                    IF ~top.rerr.isNil THEN abandon(caller, top.rerr)
                    ELSE [caller EXCEPT !.pc = "range", !.k = caller.k + 1,
                                        !.node.Deps = Append(caller.node.Deps, dn)]
            IN  /\ stack' = Append(SubSeq(stack, 1, Len(stack) - 2), resumed)
                /\ UNCHANGED walked
    /\ UNCHANGED <<walkFixed, ctxDone, queries, fetchLog>>

\* the command's context is cancelled while the walk runs
WalkCancel ==
    /\ stack # <<>>
    /\ ~ctxDone
    /\ ctxDone' = TRUE
    /\ UNCHANGED <<walkFixed, stack, walked, queries, fetchLog>>

(***************************************************************************)
(* flattenTree and processChildren: the tree of walkDependencies as a      *)
(* sorted list of dependencyItem values.                                   *)
(***************************************************************************)
\* module.Version.String(): the path, followed by "@" and the version when
\* there is one
String(m) == IF m.Version = "" THEN m.Path ELSE m.Path \o "@" \o m.Version

\* the strings of the model in the byte order strings.Compare follows
byteOrder == <<"", "a", "b", "c", "d", "v1", "v10", "v2", "z">>
rank(x) == CHOOSE i \in 1..Len(byteOrder) : byteOrder[i] = x
compareInt(x, y) == IF x < y THEN -1 ELSE IF x > y THEN 1 ELSE 0

\* strings.Compare
stringsCompare(x, y) == compareInt(rank(x), rank(y))

\* semver.IsValid and what semver.Compare parses out of a version: the
\* major and minor numbers and the prerelease (the versions of the model
\* have patch 0; "v1" is short for v1.0.0)
semverValid(v) == v \in {"v1", "v2", "v10", "v1.2.0", "v1.10.0", "v1.11.0-rc1"}
semverMajor(v) == IF v = "v2" THEN 2 ELSE IF v = "v10" THEN 10 ELSE 1
semverMinor(v) ==
    IF v = "v1.2.0" THEN 2 ELSE IF v = "v1.10.0" THEN 10
    ELSE IF v = "v1.11.0-rc1" THEN 11 ELSE 0
\* semver.Prerelease
semverPrerelease(v) == IF v = "v1.11.0-rc1" THEN "-rc1" ELSE ""
\* comparePrerelease: a version without prerelease is the higher one (the
\* model has one prerelease, so two prereleases are the same)
comparePrerelease(x, y) ==
    IF x = y THEN 0 ELSE IF x = "" THEN 1 ELSE IF y = "" THEN -1 ELSE 0

\* semver.Compare as it would be if it compared the strings
semverCompareAsStrings(v, w) == stringsCompare(v, w)

\* semver.Compare: an invalid version is less than a valid one and equal
\* to another invalid one; valid ones compare by their numbers
semverCompare(v, w) ==
    IF ~semverValid(v) /\ ~semverValid(w) THEN 0
    ELSE IF ~semverValid(v) THEN -1
    ELSE IF ~semverValid(w) THEN 1
    ELSE IF semverMajor(v) # semverMajor(w)
         THEN compareInt(semverMajor(v), semverMajor(w))
    ELSE IF semverMinor(v) # semverMinor(w)
         THEN compareInt(semverMinor(v), semverMinor(w))
    ELSE comparePrerelease(semverPrerelease(v), semverPrerelease(w))

\* the item of processChildren as it would be if it were always marked direct
childItemAlwaysDirect(d, depth) ==
    [Path |-> d.Module.Path, Version |-> d.Module.Version, IsDirect |-> TRUE, Degree |-> depth]

\* the dependencyItem flattenTree makes of a child of the root
directItem(dep) ==
    [Path |-> dep.Module.Path, Version |-> dep.Module.Version, IsDirect |-> TRUE, Degree |-> 1]

\* the dependencyItem processChildren makes of a node at depth
childItem(d, depth) ==
    [Path |-> d.Module.Path, Version |-> d.Module.Version,
     IsDirect |-> (depth = 1), Degree |-> depth]

\* processChildren: the items of deps and below that uniqueMods does not
\* hold yet, and uniqueMods as the call leaves it
RECURSIVE processChildren(_, _, _)
processChildren(deps, uniqueMods, depth) ==
    IF deps = <<>> THEN [items |-> <<>>, uniqueMods |-> uniqueMods]
    ELSE LET d == Head(deps)
             modName == String(d.Module)
         IN  IF modName \in uniqueMods
             THEN processChildren(Tail(deps), uniqueMods, depth)
             ELSE LET seen == uniqueMods \cup {modName}
                      below == IF Len(d.Deps) > 0
                               THEN processChildren(d.Deps, seen, depth + 1)
                               ELSE [items |-> <<>>, uniqueMods |-> seen]
                      rest == processChildren(Tail(deps), below.uniqueMods, depth)
                  IN  [items |-> <<childItem(d, depth)>> \o below.items \o rest.items,
                       uniqueMods |-> rest.uniqueMods]

\* the loop of flattenTree over tree.Deps: every child of the root is
\* appended, then what processChildren finds below it
RECURSIVE rangeDeps(_, _)
rangeDeps(deps, uniqueMods) ==
    IF deps = <<>> THEN <<>>
    ELSE LET dep == Head(deps)
             seen == uniqueMods \cup {String(dep.Module)}
             below == IF Len(dep.Deps) > 0
                      THEN processChildren(dep.Deps, seen, 2)
                      ELSE [items |-> <<>>, uniqueMods |-> seen]
         IN  <<directItem(dep)>> \o below.items \o rangeDeps(Tail(deps), below.uniqueMods)

\* the less function of sort.Slice
less(lhs, rhs) ==
    LET cmp == stringsCompare(lhs.Path, rhs.Path)
    IN  IF cmp # 0 THEN cmp < 0
        ELSE semverCompare(lhs.Version, rhs.Version) > 0

\* sort.Slice is not stable: items that less does not tell apart end up in
\* either order. An insertion sort that puts an item after (stable) or
\* before the items it ties with.
RECURSIVE insert(_, _, _)
insert(x, sorted, stable) ==
    IF sorted = <<>> THEN <<x>>
    ELSE LET y == Head(sorted)
             goesFirst == IF stable THEN less(x, y) ELSE ~less(y, x)
         IN  IF goesFirst THEN <<x>> \o sorted
             ELSE <<y>> \o insert(x, Tail(sorted), stable)

RECURSIVE sortSlice(_, _)
sortSlice(items, stable) ==
    IF items = <<>> THEN <<>>
    ELSE insert(items[Len(items)], sortSlice(SubSeq(items, 1, Len(items) - 1), stable), stable)

\* flattenTree: the lists it can return
flattenTree(tree) == {sortSlice(rangeDeps(tree.Deps, {}), stable) : stable \in BOOLEAN}

\* list := flattenTree(tree) in runQueryModuleGraphCmd, once the walk
\* returned without an error
Flatten ==
    /\ cmd = "query"
    /\ walked.done
    /\ walked.err.isNil
    /\ ~list.done
    /\ \E items \in flattenTree(walked.node) : list' = Flattened(items)
    /\ UNCHANGED <<pfvars, wkvars, cmd, rtvars, services>>

NextWalk ==
    \/ WalkEnter
    \/ WalkFetch
    \/ WalkRange
    \/ WalkReturn
    \/ WalkCancel
    \/ Flatten

SpecWalk == InitWalk /\ [][NextWalk]_vars

(***************************************************************************)
(* flattenTree on its own, over a family of trees.                         *)
(***************************************************************************)
\* the most children the root of a tree of the family has
MaxRootDeps == 2

mD10 == Mod("d", "v10")
TreeMods == {mB, mD2, mD10}

SeqsUpTo(S, n) == UNION {[1..k -> S] : k \in 0..n}

\* the nodes with at most one child below them, down to the third level
Level3 == {Node(m, FALSE, <<>>) : m \in TreeMods}
Level2 == {Node(m, FALSE, ds) : m \in TreeMods, ds \in SeqsUpTo(Level3, 1)}
Level1 == {Node(m, FALSE, ds) : m \in TreeMods, ds \in SeqsUpTo(Level2, 1)}

\* the tree walkDependencies returns at maxDepth 3 when a depends on b and
\* c, b on c, c on d and d on d@v2: d is cut off below b and c, not below c
TreeCutOff ==
    Node(from, TRUE,
         <<Node(mB, FALSE, <<Node(mC, FALSE, <<Node(mD, FALSE, <<>>)>>)>>),
           Node(mC, FALSE, <<Node(mD, FALSE, <<Node(mD2, FALSE, <<>>)>>)>>)>>)

Trees == {Node(from, TRUE, ds) : ds \in SeqsUpTo(Level1, MaxRootDeps)} \cup {TreeCutOff}

InitFlatten ==
    /\ cmd = "query"
    /\ list = NotFlattened
    /\ RetryIdle
    /\ ServicesIdle
    /\ graph = NoDeps
    /\ maxDepth = MaxDepthBound
    /\ pageSize = ClientPageSize
    /\ failAt = 0
    /\ stack = <<>>
    /\ walked \in {WalkReturned(tree, NilErr) : tree \in Trees}
    /\ ctxDone = FALSE
    /\ queries = 0
    /\ fetchLog = <<>>
    /\ to = Mod("z", "")
    /\ showAll = FALSE
    /\ failing = {}
    /\ task = <<>>
    /\ slices = NoSlices
    /\ sem = NumCPU
    /\ semClosed = FALSE
    /\ wg = 0
    /\ rootpc = "exit"
    /\ closes = 0
    /\ cancelled = FALSE
    /\ cancelledAfter = -1
    /\ cpc = "returned"
    /\ paths = <<>>
    /\ ret = NotReturned
    /\ output = NoOutput

SpecFlatten == InitFlatten /\ [][Flatten]_vars

(***************************************************************************)
(* retryOp: the retry of an operation that fails with the Unavailable code. *)
(***************************************************************************)
\* backoffDelays as it would be without the closing 0
backoffDelaysNoSentinel == <<100, 200, 300, 500, 800>>

\* the waits before each retry, in milliseconds; the 0 ends the retries
backoffDelays == <<100, 200, 300, 500, 800, 0>>

\* two errors with the Unavailable code, and the results op can give: a
\* value without an error, or some value together with an error
UnavailableErr == [isNil |-> FALSE, wrapsCanceled |-> FALSE, code |-> "unavailable", msg |-> "502"]
UnavailableAgainErr == [isNil |-> FALSE, wrapsCanceled |-> FALSE, code |-> "unavailable", msg |-> "reset"]
OpOutcomes ==
    {[result |-> "value", err |-> NilErr],
     [result |-> "partial", err |-> UnavailableErr],
     [result |-> "partial", err |-> UnavailableAgainErr],
     [result |-> "partial", err |-> QueryFailedErr]}

\* var zero T
zero == ""

\* the calls of op whose results are planned; a later call gets the last one
MaxPlan == 6

\* what the n-th call of op returns
opAt(n) == IF n <= Len(plan) THEN plan[n] ELSE plan[Len(plan)]

\* the test "wait > 0" as it would be if it always held
shouldWaitAlways(wait) == TRUE

\* if wait > 0
shouldWait(wait) == wait > 0

\* the retry test as it would be if every error were retried
isUnavailableOrAnyError(err) == TRUE

\* case connect.CodeOf(err) == connect.CodeUnavailable
isUnavailable(err) == CodeOf(err) = "unavailable"

\* up to 20% jitter: rand.Int gives a value below maxJitter = 0.2 * wait
jitters(wait) == {0, (wait * 2) \div 10 - 1}

\* no search, walk or command is running
FinderIdle ==
    /\ to = Mod("z", "")
    /\ showAll = FALSE
    /\ failing = {}
    /\ task = <<>>
    /\ slices = NoSlices
    /\ sem = NumCPU
    /\ semClosed = FALSE
    /\ wg = 0
    /\ rootpc = "exit"
    /\ closes = 0
    /\ cancelled = FALSE
    /\ cancelledAfter = -1
    /\ cpc = "returned"
    /\ paths = <<>>
    /\ ret = NotReturned
    /\ output = NoOutput

InitRetry ==
    /\ plan \in [1..MaxPlan -> OpOutcomes]
    /\ attempt = 1
    /\ calls = 0
    /\ slept = <<>>
    /\ rtpc = "call"
    /\ rtret = RetryNotReturned
    /\ ServicesIdle
    /\ cmd = ""
    /\ list = NotFlattened
    /\ graph = NoDeps
    /\ maxDepth = 1
    /\ FinderIdle
    /\ WalkIdle

retryFixed == <<pfvars, wkvars, cmd, list, plan, services>>

\* the end of an iteration of "for _, wait := range backoffDelays": the
\* next element, or "return zero, err" after the last one
nextAttempt(result, err) ==
    IF attempt < Len(backoffDelays)
    THEN /\ attempt' = attempt + 1
         /\ rtpc' = "call"
         /\ rtret' = [done |-> FALSE, result |-> result, err |-> err]
    ELSE /\ attempt' = attempt
         /\ rtpc' = "returned"
         /\ rtret' = RetryReturned(zero, err)

\* result, err = op() and the switch on err
RetryCall ==
    /\ rtpc = "call"
    /\ calls' = calls + 1
    /\ LET out == opAt(calls + 1)
           wait == backoffDelays[attempt]
       IN  IF out.err.isNil
           THEN /\ rtret' = RetryReturned(out.result, NilErr)
                /\ rtpc' = "returned"
                /\ UNCHANGED attempt
           ELSE IF isUnavailable(out.err)
           THEN IF shouldWait(wait)
                THEN /\ rtret' = [done |-> FALSE, result |-> out.result, err |-> out.err]
                     /\ rtpc' = "wait"
                     /\ UNCHANGED attempt
                ELSE nextAttempt(out.result, out.err)
           ELSE /\ rtret' = RetryReturned(zero, out.err)
                /\ rtpc' = "returned"
                /\ UNCHANGED attempt
    /\ UNCHANGED <<retryFixed, slept>>

\* wait += jitter; <-time.After(wait)
RetryWait ==
    /\ rtpc = "wait"
    /\ \E jitter \in jitters(backoffDelays[attempt]) :
          slept' = Append(slept, backoffDelays[attempt] + jitter)
    /\ nextAttempt(rtret.result, rtret.err)
    /\ UNCHANGED <<retryFixed, calls>>

NextRetry ==
    \/ RetryCall
    \/ RetryWait

SpecRetry == InitRetry /\ [][NextRetry]_vars

(***************************************************************************)
(* The commands: the --max-depth flag is parsed into the package variable  *)
(* maxDepth, then "query ancestors/descendants" runs walkDependencies and  *)
(* "find-paths" runs the path finder.                                      *)
(***************************************************************************)
CLIGraphs == {GraphTree, GraphCycle}

\* the flags are parsed and no command has started; --max-depth is any
\* integer, here from -1 up
InitCLI ==
    /\ cmd = ""
    /\ maxDepth \in -1..MaxDepthBound
    /\ graph \in CLIGraphs
    /\ to \in Targets
    /\ showAll \in BOOLEAN
    /\ failing = {}
    /\ task = <<>>
    /\ slices = NoSlices
    /\ sem = NumCPU
    /\ semClosed = FALSE
    /\ wg = 0
    /\ rootpc = "exit"
    /\ closes = 0
    /\ cancelled = FALSE
    /\ cancelledAfter = -1
    /\ cpc = "returned"
    /\ paths = <<>>
    /\ ret = NotReturned
    /\ output = NoOutput
    /\ list = NotFlattened
    /\ RetryIdle
    /\ ServicesIdle
    /\ WalkIdle

\* runQueryModuleGraphCmd up to its call of walkDependencies:
\*   if maxDepth <= 0 { maxDepth = 1 }
\*   tree, err := walkDependencies(ctx, ps, rootMod, dir, 1, maxDepth, updateSpinner)
runQueryModuleGraphCmd ==
    /\ cmd = ""
    /\ cmd' = "query"
    /\ maxDepth' = IF maxDepth <= 0 THEN 1 ELSE maxDepth
    /\ stack' = <<Frame(from, 1)>>
    /\ UNCHANGED <<graph, to, showAll, failing, task, sem, semClosed, wg, rootpc, closes,
                   cancelled, cancelledAfter, cpc, paths, ret, output, slices, pageSize, failAt,
                   walked, ctxDone, queries, fetchLog, list, rtvars, services>>

\* runFindPathsCommand up to its range over pf.findPathsBetween(ctx, from, to):
\*   pf = newPathFinder(ps, maxDepth, updateSpinner)
runFindPathsCommand ==
    /\ cmd = ""
    /\ cmd' = "find-paths"
    /\ task' = (<<from>> :> Task("pending", 0, NoResult))
    /\ slices' = RootSlices
    /\ wg' = 1
    /\ rootpc' = "run"
    /\ cpc' = "recv"
    /\ UNCHANGED <<graph, to, maxDepth, showAll, failing, sem, semClosed, closes,
                   cancelled, cancelledAfter, paths, ret, output, wkvars, list, rtvars,
                   services>>

NextCLI ==
    \/ runQueryModuleGraphCmd
    \/ runFindPathsCommand
    \/ NextPF
    \/ NextWalk

SpecCLI == InitCLI /\ [][NextCLI]_vars

(***************************************************************************)
(* The update of the graph: connectServer.UpdateDependencies and           *)
(* PostgresClient.SaveModuleDependencies. A module version stands for its  *)
(* row of module_version (writeModule and writeModuleVersions upsert it    *)
(* and give its id).                                                       *)
(***************************************************************************)
\* strings.TrimPrefix(v, "v") and "v" + semver
TrimPrefixV(v) == IF v = "v1" THEN "1" ELSE IF v = "v2" THEN "2" ELSE IF v = "v10" THEN "10" ELSE v
WithPrefixV(sv) == IF sv = "1" THEN "v1" ELSE IF sv = "2" THEN "v2" ELSE IF sv = "10" THEN "v10" ELSE "v" \o sv

\* store.Version
StoreVersion(name, ver) == [ModuleID |-> name, SemVer |-> TrimPrefixV(ver)]

\* a dependency of a request: a name and a list of versions
Dependency(m) == [Name |-> m.Path, Versions |-> <<m.Version>>]
TwoVersions(m) == [Name |-> m.Path, Versions |-> <<m.Version, m.Version>>]

\* the requests explored: module a@v1 or b@v1 with up to two dependencies
\* out of b, c and d, or with a dependency that names two versions
UpdatedMods == {mA, mB}
DependencyLists ==
    SeqsUpTo({Dependency(m) : m \in {mB, mC, mD}}, 2) \cup {<<TwoVersions(mC)>>}

\* the loop of UpdateDependencies over msg.GetDependencies(): the
\* store.Version values, or the InvalidArgument error
RECURSIVE toStoreVersions(_)
toStoreVersions(deps) ==
    IF deps = <<>> THEN [invalid |-> FALSE, deps |-> <<>>]
    ELSE IF Len(Head(deps).Versions) # 1 THEN [invalid |-> TRUE, deps |-> <<>>]
    ELSE LET tail == toStoreVersions(Tail(deps))
         IN  IF tail.invalid THEN tail
             ELSE [invalid |-> FALSE,
                   deps |-> <<StoreVersion(Head(deps).Name, Head(deps).Versions[1])>> \o tail.deps]

\* the loop of SaveModuleDependencies over deps: the rows given to the
\* INSERT, a dependency met before (uniqueDeps) being skipped
RECURSIVE insertValues(_, _, _)
insertValues(mod, deps, uniqueDeps) ==
    IF deps = <<>> THEN <<>>
    ELSE LET k == <<mod, Head(deps)>>
         IN  IF k \in uniqueDeps THEN insertValues(mod, Tail(deps), uniqueDeps)
             ELSE <<k>> \o insertValues(mod, Tail(deps), uniqueDeps \cup {k})

\* INSERT ... ON CONFLICT (dependent_id, dependee_id) DO UPDATE: the table
\* with the rows added that it did not hold
upsert(table, rows) == table \cup {rows[i] : i \in 1..Len(rows)}

\* SaveModuleDependencies: module_dependency after the commit
SaveModuleDependencies(table, mod, deps) ==
    IF Len(deps) = 0 THEN table
    ELSE upsert(table, insertValues(mod, deps, {}))

\* GetDependees as QueryDependencies answers: the dependencies of m, with
\* the "v" put back
storedDeps(m) ==
    {Mod(row[2].ModuleID, WithPrefixV(row[2].SemVer)) :
        row \in {r \in edges : r[1] = StoreVersion(m.Path, m.Version)}}

InitStore ==
    /\ edges = {}
    /\ latest = <<>>
    /\ responses = <<>>
    /\ pxret = NoProxyResult
    /\ cmd = ""
    /\ list = NotFlattened
    /\ RetryIdle
    /\ graph = NoDeps
    /\ maxDepth = 1
    /\ FinderIdle
    /\ WalkIdle

\* one UpdateDependencies request: rejected as invalid, failed in the
\* database (the transaction is rolled back), or saved and committed
UpdateDependencies ==
    /\ \E m \in UpdatedMods, deps \in DependencyLists, dbFails \in BOOLEAN :
          LET mod == StoreVersion(m.Path, m.Version)
              svs == toStoreVersions(deps)
          IN  IF svs.invalid \/ dbFails
              THEN UNCHANGED <<edges, latest>>
              ELSE /\ edges' = SaveModuleDependencies(edges, mod, svs.deps)
                   /\ latest' = [x \in DOMAIN latest \cup {m} |->
                                   IF x = m
                                   THEN {Mod(d.Name, d.Versions[1]) : d \in elems(deps)}
                                   ELSE latest[x]]
    /\ UNCHANGED <<pfvars, wkvars, cmd, list, rtvars, responses, pxret>>

SpecStore == InitStore /\ [][UpdateDependencies]_vars

(***************************************************************************)
(* The module proxies: Proxy.GetModuleVersions, Proxy.GetCurrentVersion    *)
(* and Proxy.GetModFile. responses holds, proxy after proxy of p.proxies,  *)
(* what the Getter answers to the request of the operation.                *)
(***************************************************************************)
\* the proxies configured and the lines of a version list
MaxProxies == 2
MaxVersions == 2

ProxyVersions == {"v1.2.0", "v1.10.0", "v1.11.0-rc1"}

\* what Get returns: an error, or a response with a status and a body
TransportErr == [err |-> TRUE, status |-> 0, body |-> <<>>]
Response(status, body) == [err |-> FALSE, status |-> status, body |-> body]
StatusOK == 200
StatusNotFound == 404
StatusGone == 410
StatusInternalServerError == 500

\* the answers to <mod>/@v/list: the body is the list of versions, one a
\* line (no line is an empty body)
ListResponses ==
    {TransportErr}
      \cup {Response(StatusOK, vs) : vs \in SeqsUpTo(ProxyVersions, MaxVersions)}
      \cup {Response(st, <<>>) : st \in {StatusNotFound, StatusGone, StatusInternalServerError}}

\* the answers to <mod>/@v/<version>.mod: a go.mod that parses or does not
ModResponses ==
    {TransportErr}
      \cup {Response(StatusOK, <<b>>) : b \in {"go.mod", "garbage"}}
      \cup {Response(st, <<>>) : st \in {StatusNotFound, StatusGone, StatusInternalServerError}}

\* what an operation returns: its value or an error, the error of Get it
\* wraps with %w, and the proxies it has asked
ProxyValue(op, value, asked) ==
    [op |-> op, value |-> value, failed |-> FALSE, wraps |-> "", asked |-> asked]
ProxyError(op, wraps, asked) ==
    [op |-> op, value |-> <<>>, failed |-> TRUE, wraps |-> wraps, asked |-> asked]

\* the same if every status other than 200 went on to the next proxy
tryNextOnAnyError(status) == status # StatusOK
\* case http.StatusNotFound, http.StatusGone: try the next proxy
tryNext(status) == status \in {StatusNotFound, StatusGone}

\* the loop of GetModuleVersions from proxy i on
RECURSIVE rangeProxiesList(_, _)
rangeProxiesList(resps, i) ==
    IF i > Len(resps) THEN ProxyError("GetModuleVersions", "", Len(resps))
    ELSE IF resps[i].err THEN ProxyError("GetModuleVersions", "transport", i)
    ELSE IF resps[i].status = StatusOK
         THEN IF Len(resps[i].body) = 0
              THEN rangeProxiesList(resps, i + 1)
              ELSE ProxyValue("GetModuleVersions", resps[i].body, i)
    ELSE IF tryNext(resps[i].status) THEN rangeProxiesList(resps, i + 1)
    ELSE ProxyError("GetModuleVersions", "", i)

\* the loop of GetModFile from proxy i on
RECURSIVE rangeProxiesMod(_, _)
rangeProxiesMod(resps, i) ==
    IF i > Len(resps) THEN ProxyError("GetModFile", "", Len(resps))
    ELSE IF resps[i].err THEN ProxyError("GetModFile", "transport", i)
    ELSE IF resps[i].status = StatusOK
         THEN IF resps[i].body = <<"go.mod">>
              THEN ProxyValue("GetModFile", resps[i].body, i)
              ELSE ProxyError("GetModFile", "parse", i)
    ELSE IF tryNext(resps[i].status) THEN rangeProxiesMod(resps, i + 1)
    ELSE ProxyError("GetModFile", "", i)

\* the loop of GetCurrentVersion over versions from position i on
RECURSIVE rangeVersions(_, _, _, _)
rangeVersions(versions, i, current, includePrerelease) ==
    IF i > Len(versions) THEN current
    ELSE IF /\ semverCompare(versions[i], current) > 0
            /\ (semverPrerelease(versions[i]) = "" \/ includePrerelease)
         THEN rangeVersions(versions, i + 1, versions[i], includePrerelease)
    ELSE rangeVersions(versions, i + 1, current, includePrerelease)

\* the proxies and what they will answer
InitProxy ==
    /\ responses \in SeqsUpTo(ListResponses, MaxProxies) \cup SeqsUpTo(ModResponses, MaxProxies)
    /\ pxret = NoProxyResult
    /\ edges = {}
    /\ latest = <<>>
    /\ cmd = ""
    /\ list = NotFlattened
    /\ RetryIdle
    /\ graph = NoDeps
    /\ maxDepth = 1
    /\ FinderIdle
    /\ WalkIdle

proxyFixed == <<pfvars, wkvars, cmd, list, rtvars, edges, latest, responses>>

GetModuleVersions ==
    /\ pxret.op = ""
    /\ responses \in SeqsUpTo(ListResponses, MaxProxies)
    /\ pxret' = rangeProxiesList(responses, 1)
    /\ UNCHANGED proxyFixed

GetCurrentVersion ==
    /\ pxret.op = ""
    /\ responses \in SeqsUpTo(ListResponses, MaxProxies)
    /\ \E includePrerelease \in BOOLEAN :
          LET got == rangeProxiesList(responses, 1)
          IN  pxret' =
                IF got.failed
                THEN [got EXCEPT !.op = "GetCurrentVersion"]
                ELSE [op |-> "GetCurrentVersion",
                      value |-> <<rangeVersions(got.value, 1, got.value[1], includePrerelease)>>,
                      failed |-> FALSE, wraps |-> "", asked |-> got.asked,
                      includePrerelease |-> includePrerelease, versions |-> got.value]
    /\ UNCHANGED proxyFixed

GetModFile ==
    /\ pxret.op = ""
    /\ responses \in SeqsUpTo(ModResponses, MaxProxies)
    /\ pxret' = rangeProxiesMod(responses, 1)
    /\ UNCHANGED proxyFixed

NextProxy == GetModuleVersions \/ GetCurrentVersion \/ GetModFile

SpecProxy == InitProxy /\ [][NextProxy]_vars

(***************************************************************************)
(* Paths of a graph, for the statements about the search.                  *)
(***************************************************************************)
\* the sequences from, m1, ..., mk that follow k edges of g
RECURSIVE walks(_, _)
walks(g, k) ==
    IF k = 0 THEN {<<from>>}
    ELSE {Append(w, g[Last(w)][i]) : <<w, i>> \in
            {x \in walks(g, k - 1) \X (1..Cardinality(Modules)) : x[2] <= Len(g[Last(x[1])])}}

walksUpTo(g, k) == UNION {walks(g, h) : h \in 1..k}

noRepeat(s) == \A i, j \in 1..Len(s) : s[i] = s[j] => i = j

\* no walk of g returns to a module it has visited
RECURSIVE reach(_, _, _)
reach(g, ms, k) ==
    IF k = 0 THEN ms
    ELSE reach(g, ms \cup {g[m][i] : <<m, i>> \in
                 {x \in ms \X (1..Cardinality(Modules)) : x[2] <= Len(g[x[1]])}}, k - 1)
successors(g, m) == {g[m][i] : i \in 1..Len(g[m])}
acyclic(g) == \A m \in Modules : m \notin reach(g, successors(g, m), Cardinality(Modules))

\* the simple paths from "from" to a module matching "to" of at most k hops
simplePaths(g, k) == {w \in walksUpTo(g, k) : noRepeat(w) /\ matches(Last(w))}

\* the consumer read the stream until it closed, without cancelling
readToClose == showAll /\ cpc = "returned" /\ ret.err.isNil /\ closes > 0

(***************************************************************************)
(* C1: on an acyclic graph, a consumer that reads the stream to its close  *)
(* without cancelling has received as many paths as there are simple paths *)
(* from "from" to a module matching "to" of at most maxDepth hops.         *)
(***************************************************************************)
C1_CountIsSimplePathsWithinMaxDepth ==
    (readToClose /\ acyclic(graph)) =>
        Len(paths) = Cardinality(simplePaths(graph, maxDepth))

(***************************************************************************)
(* C2: with a consumer that keeps receiving, the search ends: the stream   *)
(* is closed, on every graph, cyclic ones included; a target that is not   *)
(* in the graph yields no path.                                            *)
(***************************************************************************)
C2_SearchTerminates ==
    (showAll /\ failing = {}) =>
        <>(closes = 1 /\ cpc = "returned" /\ (to.Path = "z" => paths = <<>>))

C2_Witness ==
    /\ graph = GraphCycle /\ to.Path = "z" /\ maxDepth = 3 /\ showAll
    /\ closes = 1 /\ cpc = "returned" /\ paths = <<>>
    /\ <<mA, mB, mA, mB>> \in Chains

(***************************************************************************)
(* C3: the stream is closed once, only when the counter of outstanding     *)
(* work is zero; the counter counts the tasks spawned and not completed,   *)
(* is never negative, and no task is left to send once the stream closed.  *)
(***************************************************************************)
unfinished == {c \in Chains : task[c].pc # "done"}

atRest == ~ENABLED NextPF

C4_CancelThenCleanClose ==
    ~showAll =>
        /\ cancelledAfter # 0
        /\ (cancelledAfter >= 1 /\ atRest) => (closes = 1 /\ ret = Returned(NilErr))

(***************************************************************************)
(* C5: a result that carries the cancellation signal, in either form, ends *)
(* the command with a nil error and the paths collected so far written.    *)
(***************************************************************************)
carriesCancellation(e) == ~e.isNil /\ (e.wrapsCanceled \/ e.code = "canceled")

C5_CancellationIsSuccess ==
    [][\A chain \in Chains :
         (Recv(chain) /\ carriesCancellation(task[chain].out.err)) =>
            (ret' = Returned(NilErr) /\ output' = Written(paths))]_vars

(***************************************************************************)
(* C6: a query failure received by the consumer is returned as the error   *)
(* of the command at once and nothing is written; paths are written before *)
(* the stream closed only after the consumer cancelled.                    *)
(***************************************************************************)
C6_FailureFailsWholeCommand ==
    /\ [][\A chain \in Chains :
            (Recv(chain) /\ task[chain].out.err = QueryFailedErr) =>
               (ret' = Returned(QueryFailedErr) /\ output' = NoOutput)]_vars
    /\ [](ret = Returned(QueryFailedErr) => output = NoOutput)
    /\ []((output.written /\ closes = 0) => cancelledAfter >= 1)

C6_Witness ==
    /\ ret = Returned(QueryFailedErr)
    /\ Len(paths) >= 1
    /\ output = NoOutput

(***************************************************************************)
(* C7: the tasks holding a slot, and so the queries in flight, never       *)
(* outnumber the slots of the semaphore.                                   *)
(***************************************************************************)
holders == {c \in Chains : task[c].pc \in {"query", "send", "scan", "spawn", "release"}}
inFlight == {c \in Chains : task[c].pc = "query"}

C7_AtMostNumCPUHolders ==
    /\ Cardinality(holders) <= NumCPU
    /\ Cardinality(inFlight) <= NumCPU
    /\ sem >= 0

C7_Witness ==
    /\ Cardinality(holders) = NumCPU
    /\ inFlight # {}
    /\ sem = 0
    /\ \E c \in Chains : task[c].pc = "pending"

(***************************************************************************)
(* C8: as claimed, no chain holds a module twice.                          *)
(***************************************************************************)
C8_ChainsAreSimple ==
    /\ \A c \in Chains : noRepeat(c)
    /\ \A i \in 1..Len(paths) : noRepeat(paths[i])

(***************************************************************************)
(* C8, amended: a chain is its parent's chain plus one child, starts at    *)
(* "from" and has as many modules as its depth, at most maxDepth+1; it     *)
(* holds no module twice when the graph is acyclic, and nothing else keeps *)
(* a module from recurring. Prefixes of a chain are chains of other tasks, *)
(* so a module is expanded once per branch that reaches it.                *)
(***************************************************************************)
C8_ChainsBoundedByDepth ==
    /\ \A c \in Chains :
         /\ c[1] = from
         /\ depthOf(c) <= maxDepth + 1
         /\ Len(c) > 1 => SubSeq(c, 1, Len(c) - 1) \in Chains
         /\ acyclic(graph) => noRepeat(c)
    /\ \A i \in 1..Len(paths) :
         /\ Len(paths[i]) <= maxDepth + 2
         /\ acyclic(graph) => noRepeat(paths[i])

C8_Witness ==
    /\ <<mA, mB, mA>> \in Chains
    /\ \E i \in 1..Len(paths) : paths[i] = <<mA, mB, mA>>
    /\ \E c, d \in Chains : c # d /\ Last(c) = Last(d) /\ task[c].pc = "done" /\ task[d].pc = "done"

(***************************************************************************)
(* C9: the outermost walkDependencies call drains the pages of its node:   *)
(* the first fetch carries the empty token, every further fetch the token  *)
(* the one before returned, the fetches stop at the first empty token      *)
(* returned, and the edges of all pages are accumulated in order; with     *)
(* three edges in pages of two that is two fetches.                        *)
(***************************************************************************)
atRoot(e) == e.depth = 1
rootFetches == SelectSeq(fetchLog, atRoot)

RECURSIVE pagesOf(_)
pagesOf(fs) == IF fs = <<>> THEN <<>> ELSE Head(fs).Modules \o pagesOf(Tail(fs))

modulesOf(deps) == [i \in 1..Len(deps) |-> deps[i].Module]

C9_DrainsPagesUntilEmptyToken ==
    (walked.done /\ walked.err.isNil) =>
        LET fs == rootFetches
        IN  /\ Len(fs) >= 1
            /\ fs[1].PageToken = NoToken
            /\ \A i \in 1..(Len(fs) - 1) :
                 /\ fs[i].NextPageToken # NoToken
                 /\ fs[i + 1].PageToken = fs[i].NextPageToken
            /\ fs[Len(fs)].NextPageToken = NoToken
            /\ modulesOf(walked.node.Deps) = pagesOf(fs)
            /\ (graph = GraphWide /\ pageSize = 2) =>
                 (Len(fs) = 2 /\ modulesOf(walked.node.Deps) = <<mB, mC, mD>>)

(***************************************************************************)
(* C10: the tree walkDependencies returns, and every tree it is building,  *)
(* has no node deeper below the root than maxDepth.                        *)
(***************************************************************************)
maxOf(S) == IF S = {} THEN 0 ELSE CHOOSE x \in S : \A y \in S : y <= x

RECURSIVE height(_)
height(n) == IF n.Deps = <<>> THEN 0
             ELSE 1 + maxOf({height(n.Deps[i]) : i \in 1..Len(n.Deps)})

C10_TreeWithinMaxDepth ==
    /\ walked.done => height(walked.node) <= maxDepth
    /\ \A i \in 1..Len(stack) :
         stack[i].node.Deps # <<>> => stack[i].depth + height(stack[i].node) - 1 <= maxDepth

C10_Witness ==
    /\ graph = GraphCycle /\ maxDepth = 2
    /\ walked.done /\ walked.err.isNil
    /\ height(walked.node) = 2
    /\ walked.node.Deps[1].Deps[1].Module = mA

(***************************************************************************)
(* C11: the walk terminates when the pages of a node end with an empty     *)
(* continuation token: an invocation that has received a page goes on with *)
(* the token of that page and never asks for the first page again (the     *)
(* store answers a repeated request with the same page, so a walk that     *)
(* repeats a request repeats it without end).                              *)
(***************************************************************************)
refetches(f) == f.pc = "fetch" /\ f.k > 0

C11_WalkNeverRestartsPaging ==
    \A i \in 1..Len(stack) : refetches(stack[i]) => stack[i].PageToken # NoToken

(***************************************************************************)
(* C12: once a QueryDependencies call of a walk has failed, the walk       *)
(* issues no further call, every invocation still on the stack returns     *)
(* that error with an empty tree, and so does the outermost one.           *)
(***************************************************************************)
C12_QueryFailureAbortsWalk ==
    (failAt # 0 /\ queries >= failAt) =>
        /\ queries = failAt
        /\ stack # <<>> =>
              (top.pc = "return" /\ top.rerr = QueryFailedErr /\ top.rnode = ZeroNode)
        /\ stack = <<>> => walked = WalkReturned(ZeroNode, QueryFailedErr)

C12_Witness ==
    /\ graph = GraphTree /\ pageSize = 0 /\ maxDepth = 2
    /\ failAt = 3 /\ queries = 3
    /\ Len(fetchLog) = 2 /\ fetchLog[2].mod = mB
    /\ walked = WalkReturned(ZeroNode, QueryFailedErr)

(***************************************************************************)
(* C13: an invocation that finds the context cancelled at its entry        *)
(* returns the cancellation error with an empty tree; while an error is    *)
(* on its way up no query is issued, every caller returns the same error   *)
(* with an empty tree, and the outermost call hands both to the command.   *)
(***************************************************************************)
unwinding == stack # <<>> /\ top.pc = "return" /\ ~top.rerr.isNil

C13_CancellationAbortsWalk ==
    /\ [][(stack # <<>> /\ top.pc = "enter" /\ ctxDone /\ stack' # stack) =>
            (/\ Len(stack') = Len(stack)
             /\ top'.pc = "return"
             /\ top'.rerr = CtxCanceledErr
             /\ top'.rnode = ZeroNode)]_vars
    /\ [][(unwinding /\ top.rerr = CtxCanceledErr /\ stack' # stack) =>
            (/\ queries' = queries
             /\ Len(stack') = Len(stack) - 1
             /\ stack' # <<>> =>
                   (top'.pc = "return" /\ top'.rerr = CtxCanceledErr /\ top'.rnode = ZeroNode)
             /\ stack' = <<>> => walked' = WalkReturned(ZeroNode, CtxCanceledErr))]_vars
    /\ [](walked.done => (walked.err.isNil \/ walked.node = ZeroNode))

C13_Witness ==
    /\ Len(stack) = 2
    /\ top.pc = "return" /\ top.rerr = CtxCanceledErr /\ top.k = 0
    /\ stack[1].node.Deps # <<>>
    /\ queries >= 2

(***************************************************************************)
(* C14: the list flattenTree returns holds at most one item for a (path,   *)
(* version) identity, wherever that identity occurs in the tree.           *)
(***************************************************************************)
sameIdentity(x, y) == x.Path = y.Path /\ x.Version = y.Version

C14_OneItemPerIdentity ==
    list.done =>
        \A i, j \in 1..Len(list.items) :
            sameIdentity(list.items[i], list.items[j]) => i = j

(***************************************************************************)
(* C15: every item of the list flattenTree returns has a degree of at      *)
(* least 1 and is marked direct exactly when its degree is 1.              *)
(***************************************************************************)
C15_DirectIffDegreeOne ==
    list.done =>
        \A i \in 1..Len(list.items) :
            /\ list.items[i].Degree >= 1
            /\ list.items[i].IsDirect <=> (list.items[i].Degree = 1)

C15_Witness ==
    /\ list.done
    /\ \E i, j, k \in 1..Len(list.items) :
          /\ list.items[i].Degree = 1 /\ list.items[i].IsDirect
          /\ list.items[j].Degree = 2 /\ ~list.items[j].IsDirect
          /\ list.items[k].Degree = 3 /\ ~list.items[k].IsDirect

(***************************************************************************)
(* C16: with maxDepth = 1 the flattened tree of a walk from the root holds *)
(* exactly the direct relations of the root, one item each, every item     *)
(* direct and of degree 1.                                                 *)
(***************************************************************************)
identityOf(x) == <<x.Path, x.Version>>

pathBefore(x, y) == rank(x.Path) < rank(y.Path)
versionNotLower(x, y) == semverMajor(x.Version) >= semverMajor(y.Version)

C17_SortedByPathThenVersionDescending ==
    list.done =>
        \A i \in 1..(Len(list.items) - 1) :
            \/ pathBefore(list.items[i], list.items[i + 1])
            \/ /\ list.items[i].Path = list.items[i + 1].Path
               /\ versionNotLower(list.items[i], list.items[i + 1])

C17_Witness ==
    /\ list.done
    /\ Len(list.items) = 3
    /\ identityOf(list.items[1]) = <<"b", "v1">>
    /\ identityOf(list.items[2]) = <<"d", "v10">>
    /\ identityOf(list.items[3]) = <<"d", "v2">>
    /\ walked.node.Deps[1].Module = mD2

(***************************************************************************)
(* C18: when op fails with the Unavailable code on its first k calls, for  *)
(* k from 1 to 5, and succeeds on call k+1, retryOp goes on until that     *)
(* call and returns its result with a nil error after exactly k+1 calls.   *)
(***************************************************************************)
unavailable(out) == ~out.err.isNil /\ out.err.code = "unavailable"
failsThenSucceeds(k) ==
    /\ \A i \in 1..k : unavailable(plan[i])
    /\ plan[k + 1].err.isNil

C18_SucceedsAfterTransientFailures ==
    \A k \in 1..5 :
        (rtpc # "idle" /\ failsThenSucceeds(k)) =>
            /\ calls <= k + 1
            /\ ~rtret.done => ENABLED NextRetry
            /\ rtret.done => (rtret = RetryReturned(plan[k + 1].result, NilErr) /\ calls = k + 1)

C18_Witness ==
    /\ failsThenSucceeds(5)
    /\ rtret = RetryReturned("value", NilErr)
    /\ calls = 6
    /\ Len(slept) = 5

(***************************************************************************)
(* C19: retryOp calls op at most 6 times, waiting once before each of the  *)
(* at most 5 retries, the nominal 100, 200, 300, 500 and 800 ms plus less  *)
(* than 20%; it returns an Unavailable error only when all 6 calls failed  *)
(* with that code, then with the zero value and the error of the last      *)
(* call, and without a wait after that call.                               *)
(***************************************************************************)
nominalDelays == <<100, 200, 300, 500, 800>>

C19_AtMostSixCallsThenLastError ==
    /\ calls <= 6
    /\ Len(slept) <= 5
    /\ \A i \in 1..Len(slept) :
          /\ i <= Len(nominalDelays)
          /\ slept[i] >= nominalDelays[i]
          /\ slept[i] * 10 < nominalDelays[i] * 12
    /\ rtpc = "call" => Len(slept) = calls
    /\ rtret.done => Len(slept) = calls - 1
    /\ (rtret.done /\ CodeOf(rtret.err) = "unavailable") =>
          /\ calls = 6
          /\ \A i \in 1..6 : unavailable(plan[i])
          /\ rtret = RetryReturned(zero, plan[6].err)

C19_Witness ==
    /\ rtret.done
    /\ rtret.err = UnavailableAgainErr
    /\ plan[5].err = UnavailableErr
    /\ calls = 6
    /\ slept = <<100, 239, 300, 599, 800>>

(***************************************************************************)
(* C20: a traversal started by a command runs with maxDepth >= 1: when     *)
(* walkDependencies or the path finder has issued a query, the depth       *)
(* bound it works with is at least 1.                                      *)
(***************************************************************************)
queryIssued == queries > 0 \/ \E c \in Chains : task[c].pc = "query"

C20_TraversalsRunWithPositiveMaxDepth ==
    (cmd # "" /\ queryIssued) => maxDepth >= 1

(***************************************************************************)
(* C21: with a depending on b and c, b on d, target d and maxDepth = 4, a  *)
(* search that is read to the close of the stream emits the one path       *)
(* [a, b, d] and no error: no task ever holds an error result, the paths   *)
(* received are that path once, and the command returns nil and writes it. *)
(***************************************************************************)
scenarioABD ==
    /\ cmd = "find-paths"
    /\ graph = GraphTree /\ to = Mod("d", "") /\ maxDepth = 4
    /\ showAll /\ failing = {}

C21_OnePathABD ==
    scenarioABD =>
        /\ \A c \in Chains : task[c].out.err.isNil
        /\ \A c \in Chains : task[c].out.path \in {<<>>, <<mA, mB, mD>>}
        /\ paths \in {<<>>, << <<mA, mB, mD>> >>}
        /\ closes > 0 => paths = << <<mA, mB, mD>> >>
        /\ ret.done => (ret = Returned(NilErr) /\ output = Written(<< <<mA, mB, mD>> >>))

C21_Witness ==
    /\ scenarioABD
    /\ closes = 1 /\ cpc = "returned"
    /\ paths = << <<mA, mB, mD>> >>
    /\ Chains = {<<mA>>, <<mA, mB>>, <<mA, mC>>, <<mA, mB, mD>>}

(***************************************************************************)
(* C22: after a successful update of a module version its stored direct    *)
(* dependencies are exactly those of the request: for every module version *)
(* that was updated, what the store holds for it is the dependency list of *)
(* its most recent successful update.                                      *)
(***************************************************************************)
C22_UpdateReplacesDependencies ==
    \A m \in DOMAIN latest : storedDeps(m) = latest[m]

(***************************************************************************)
(* C23: GetCurrentVersion returns the highest eligible version of the list *)
(* the proxy returned, where every version is eligible with                *)
(* includePrerelease and only the versions without prerelease are          *)
(* eligible without it, so that a prerelease is never returned when the    *)
(* list holds a stable version; and it returns an error when no proxy      *)
(* returned a version.                                                     *)
(***************************************************************************)
eligible(versions, includePrerelease) ==
    {v \in elems(versions) : includePrerelease \/ semverPrerelease(v) = ""}

noProxyReturnsVersions ==
    \A i \in 1..Len(responses) :
        ~(~responses[i].err /\ responses[i].status = StatusOK /\ Len(responses[i].body) > 0)

C23_CurrentVersionIsHighestEligible ==
    pxret.op = "GetCurrentVersion" =>
        /\ noProxyReturnsVersions => pxret.failed
        /\ ~pxret.failed =>
              LET el == eligible(pxret.versions, pxret.includePrerelease)
              IN  el # {} =>
                    /\ pxret.value[1] \in el
                    /\ \A v \in el : semverCompare(pxret.value[1], v) >= 0

(***************************************************************************)
(* C24: GetModuleVersions and GetModFile consult the proxies in order: a   *)
(* proxy answering 404 or 410 is skipped, the first 200 answer determines  *)
(* the result, a transport error ends the lookup with an error wrapping it *)
(* without asking a later proxy, and when every proxy was skipped an error *)
(* is returned.                                                            *)
(***************************************************************************)
lookupReturned == pxret.op \in {"GetModuleVersions", "GetModFile"}

\* the first proxy whose answer is not one of those skip holds for, 0 when
\* there is none
firstNot(skip(_)) ==
    IF \A i \in 1..Len(responses) : skip(responses[i]) THEN 0
    ELSE CHOOSE i \in 1..Len(responses) :
            /\ ~skip(responses[i])
            /\ \A j \in 1..(i - 1) : skip(responses[j])

answered404or410(r) == ~r.err /\ r.status \in {404, 410}
answered200(r) == ~r.err /\ r.status = 200

\* the result is the one the answer r gives
resultOf(r) ==
    IF pxret.op = "GetModFile"
    THEN IF r.body = <<"go.mod">> THEN ~pxret.failed /\ pxret.value = r.body
         ELSE pxret.failed /\ pxret.wraps = "parse"
    ELSE ~pxret.failed /\ pxret.value = r.body

lookupFollows(skip(_), determines(_)) ==
    LET k == firstNot(skip)
    IN  IF k = 0 THEN pxret.failed /\ pxret.wraps = "" /\ pxret.asked = Len(responses)
        ELSE /\ pxret.asked = k
             /\ responses[k].err => pxret.failed /\ pxret.wraps = "transport"
             /\ answered200(responses[k]) => determines(responses[k])

\* the statement as made: the lookup ends at the first 200 answer, whose
\* body, when it has one, gives the result
determinesWhenNotEmpty(r) == Len(r.body) > 0 => resultOf(r)

C24_First200Determines ==
    lookupReturned => lookupFollows(answered404or410, determinesWhenNotEmpty)

\* C24 as the code has it: GetModuleVersions also skips a 200 answer with
\* an empty body, so that the first 200 answer with a body (for GetModFile
\* the first 200 answer) determines the result; any other status ends the
\* lookup with an error.
skippedAnswer(r) ==
    \/ answered404or410(r)
    \/ pxret.op = "GetModuleVersions" /\ answered200(r) /\ Len(r.body) = 0

C24_FirstAnswerNotSkippedDetermines ==
    lookupReturned =>
        /\ lookupFollows(skippedAnswer, resultOf)
        /\ LET k == firstNot(skippedAnswer)
           IN  k > 0 /\ ~responses[k].err /\ ~answered200(responses[k]) =>
                 pxret.failed /\ pxret.wraps = ""

C24_Witness ==
    /\ pxret.op = "GetModuleVersions"
    /\ Len(responses) = 2
    /\ answered200(responses[1]) /\ Len(responses[1].body) = 0
    /\ answered200(responses[2]) /\ Len(responses[2].body) = 2
    /\ ~pxret.failed
    /\ pxret.value = responses[2].body
    /\ pxret.asked = 2

(***************************************************************************)
(* C25: once the cancellation signal is set no task issues a new query and *)
(* no new task is spawned; a task that finds the signal set at one of its  *)
(* checks (after the slot is acquired, before each child) sends one        *)
(* cancellation result and returns without a query or a spawn.             *)
(***************************************************************************)
issuesQuery(chain) == task[chain].pc # "query" /\ task'[chain].pc = "query"
spawnsTask == DOMAIN task' # DOMAIN task
atCheck(chain) == task[chain].pc \in {"pending", "scan"} /\ task'[chain] # task[chain]
sendsCancellation(chain) == task[chain].pc = "send" /\ task[chain].out = ErrResult(CtxCanceledErr)

C25_NoQueryNoSpawnOnceCancelled ==
    [][cancelled =>
         /\ \A chain \in Chains : ~issuesQuery(chain)
         /\ ~spawnsTask
         /\ \A chain \in Chains :
               /\ atCheck(chain) => task'[chain] = Task("send", task[chain].i, ErrResult(CtxCanceledErr))
               /\ sendsCancellation(chain) /\ task'[chain] # task[chain] =>
                     task'[chain].pc = "release"]_vars

(***************************************************************************)
(* C26: a task at depth d that ends its scan without a query error and     *)
(* without seeing the cancellation spawns one task per child edge, with    *)
(* the chain extended by the child, at depth d+1, when d <= maxDepth, and  *)
(* no task when d > maxDepth.                                              *)
(***************************************************************************)
childChains(chain) == {Append(chain, depsOf(chain)[k]) : k \in 1..Len(depsOf(chain))}
spawnedBy(chain) == {c \in Chains : Len(c) = Len(chain) + 1 /\ SubSeq(c, 1, Len(chain)) = chain}

\* the scan of chain ends in this step, with neither error nor cancellation
endsScan(chain) ==
    /\ \/ task[chain].pc \in {"query", "scan"}
       \/ task[chain].pc = "send" /\ task[chain].out.err.isNil
    /\ task'[chain].pc \in {"spawn", "release"}

spawnsPerChild(chain) ==
    LET deps == depsOf(chain)
        j == task[chain].i
    IN  /\ endsScan(chain) =>
              /\ spawnedBy(chain) = {}
              /\ task'[chain] =
                    IF depthOf(chain) <= maxDepth /\ Len(deps) > 0
                    THEN Task("spawn", 1, NoResult)
                    ELSE Task("release", 0, NoResult)
        /\ task[chain].pc = "spawn" /\ task'[chain] # task[chain] =>
              /\ Append(chain, deps[j]) \notin Chains
              /\ DOMAIN task' = Chains \cup {Append(chain, deps[j])}
              /\ task'[Append(chain, deps[j])] = Task("pending", 0, NoResult)
              /\ depthOf(Append(chain, deps[j])) = depthOf(chain) + 1
              /\ task'[chain] =
                    IF j < Len(deps) THEN Task("spawn", j + 1, NoResult)
                    ELSE Task("release", 0, NoResult)

spawnedAreChildren ==
    \A chain \in Chains :
        /\ depthOf(chain) > maxDepth => spawnedBy(chain) = {}
        /\ spawnedBy(chain) \subseteq childChains(chain)
        /\ task[chain].pc = "spawn" =>
              spawnedBy(chain) = {Append(chain, depsOf(chain)[k]) : k \in 1..(task[chain].i - 1)}
        /\ spawnedBy(chain) # {} /\ task[chain].pc # "spawn" =>
              spawnedBy(chain) = childChains(chain)

C26_OneTaskPerChildWithinDepth ==
    /\ []spawnedAreChildren
    /\ [][(DOMAIN task' # DOMAIN task => \E chain \in Chains : task[chain].pc = "spawn" /\ task'[chain] # task[chain])
          /\ \A chain \in Chains : spawnsPerChild(chain)]_vars

C26_Witness ==
    \E c1, c2 \in Chains :
        /\ Len(depsOf(c1)) = 2 /\ depthOf(c1) <= maxDepth
        /\ task[c1].pc = "done" /\ spawnedBy(c1) = childChains(c1)
        /\ Cardinality(spawnedBy(c1)) = 2
        /\ Len(depsOf(c2)) > 0 /\ depthOf(c2) = maxDepth + 1
        /\ task[c2].pc = "done" /\ spawnedBy(c2) = {}
        /\ ~cancelled

(***************************************************************************)
(* C27: every path sent is chain+child with the chain of a task, starting  *)
(* at from, every consecutive pair an edge a query returned, the last      *)
(* module with the path of the target and, when the target has a version,  *)
(* its version; and each child of a task that matches gives one path       *)
(* result of that task, so that several children of one node can match.    *)
(***************************************************************************)
isTarget(d) == d.Path = to.Path /\ (to.Version = "" \/ d.Version = to.Version)

\* the paths handed to the stream: those received and those being sent
sending == {task[c].out.path : c \in {x \in Chains : task[x].pc = "send" /\ task[x].out.err.isNil}}
emitted == elems(paths) \cup sending

wellFormedPath(p) ==
    /\ Len(p) >= 2
    /\ p[1] = from
    /\ SubSeq(p, 1, Len(p) - 1) \in Chains
    /\ \A k \in 1..(Len(p) - 1) : p[k + 1] \in elems(depsOf(SubSeq(p, 1, k)))
    /\ isTarget(Last(p))

occurrences(p) == Cardinality({k \in 1..Len(paths) : paths[k] = p})

\* the children of chain that match among the first n
matchingChildren(chain, n) ==
    {Append(chain, depsOf(chain)[k]) : k \in {x \in 1..n : isTarget(depsOf(chain)[x])}}

\* the paths of the task of chain that were received
receivedFrom(chain) == {p \in elems(paths) : SubSeq(p, 1, Len(p) - 1) = chain}

onePathPerMatch ==
    \A chain \in Chains :
        /\ \A p \in receivedFrom(chain) : occurrences(p) = 1
        /\ task[chain].pc = "scan" =>
              receivedFrom(chain) = matchingChildren(chain, task[chain].i - 1)
        /\ task[chain].pc = "send" /\ task[chain].out.err.isNil =>
              /\ receivedFrom(chain) = matchingChildren(chain, task[chain].i - 1)
              /\ task[chain].out.path = Append(chain, depsOf(chain)[task[chain].i])
        /\ task[chain].pc = "spawn" \/ spawnedBy(chain) # {} =>
              receivedFrom(chain) = matchingChildren(chain, Len(depsOf(chain)))

C27_PathsAreMatchingChains ==
    /\ [](\A p \in emitted : wellFormedPath(p))
    /\ []onePathPerMatch
    /\ [][\A chain \in Chains :
            (/\ task[chain].pc = "scan"
             /\ task'[chain] # task[chain]
             /\ ~cancelled
             /\ isTarget(depsOf(chain)[task[chain].i]))
            => task'[chain] = Task("send", task[chain].i,
                                   PathResult(Append(chain, depsOf(chain)[task[chain].i])))]_vars

C27_Witness ==
    /\ graph = GraphVersions
    /\ to = Mod("d", "")
    /\ task[<<mA>>].pc = "done"
    /\ receivedFrom(<<mA>>) = {<<mA, mD>>, <<mA, mD2>>}
    /\ <<mA, mD, mD2>> \in elems(paths)
    /\ Len(paths) = 3

(***************************************************************************)
(* C28: the semaphore keeps its NumCPU slots: the free slots and the slots *)
(* held by tasks always add up to NumCPU; a task takes one slot, gives it  *)
(* back once, after its own work and on every exit, and the semaphore is   *)
(* closed only when every task has given its slot back, so that no slot is *)
(* given back to a closed semaphore.                                       *)
(***************************************************************************)
released == {c \in Chains : task[c].pc \in {"exit", "done"}}
working == {"query", "scan", "send", "spawn"}

slotsConserved ==
    /\ sem + Cardinality(holders) = NumCPU
    /\ semClosed => holders = {} /\ released = Chains

slotTakenAndGivenBackOnce ==
    \A chain \in Chains :
        \* the slot is taken at the start of the task
        /\ task[chain].pc = "pending" /\ task'[chain] # task[chain] =>
              task'[chain].pc \in working /\ sem' = sem - 1
        \* it is kept while the task works
        /\ task[chain].pc \in working /\ task'[chain] # task[chain] =>
              task'[chain].pc \in working \cup {"release"} /\ sem' = sem
        \* it is given back to the open semaphore when the task returns
        /\ task[chain].pc = "release" /\ task'[chain] # task[chain] =>
              task'[chain].pc = "exit" /\ sem' = sem + 1 /\ ~semClosed
        \* and never again
        /\ task[chain].pc \in {"exit", "done"} =>
              task'[chain].pc \in {"exit", "done"} /\ (task'[chain] # task[chain] => sem' = sem)

C28_SemaphoreConservesSlots ==
    /\ []slotsConserved
    /\ [][/\ slotTakenAndGivenBackOnce
          /\ sem' # sem => \E chain \in Chains : task'[chain] # task[chain]
          /\ semClosed => sem' = sem /\ semClosed']_vars

C28_Witness ==
    /\ semClosed
    /\ sem = NumCPU
    /\ failing = {mB}
    /\ ~ret.err.isNil
    /\ Cardinality(Chains) >= 3

(***************************************************************************)
(* C30: in the tree walkDependencies returns for a root, the Direct flag   *)
(* of a node is true exactly when the node is a child of the root; the     *)
(* deeper nodes have Direct false.                                         *)
(***************************************************************************)
\* the nodes below n, n being d - 1 levels below the root, carry the flag of
\* their depth
RECURSIVE directByDepth(_, _)
directByDepth(n, d) ==
    \A k \in 1..Len(n.Deps) :
        /\ n.Deps[k].Direct = (d = 1)
        /\ directByDepth(n.Deps[k], d + 1)

C30_DirectMarksChildrenOfRoot ==
    (walked.done /\ walked.err.isNil) => directByDepth(walked.node, 1)

(***************************************************************************)
(* C29: a path handed to the stream is never modified afterwards and no    *)
(* two tasks share a chain that can be written: extending the chain for a  *)
(* child changes neither the chain of the parent, nor that of a sibling,   *)
(* nor a path already sent.                                                *)
(***************************************************************************)
\* the backing arrays of the chains of the tasks and of the paths sent
chainArrays == {slices.chain[c].arr : c \in DOMAIN slices.chain}
handedArrays == {h.slice.arr : h \in slices.handed}

chainsAndPathsKeepTheirModules ==
    /\ DOMAIN slices.chain = Chains
    /\ \A c \in Chains : read(slices.arrays, slices.chain[c]) = c
    /\ \A h \in slices.handed : read(slices.arrays, h.slice) = h.value
    /\ {h.value : h \in slices.handed} = emitted

noArrayShared ==
    /\ \A c1, c2 \in Chains : c1 # c2 => slices.chain[c1].arr # slices.chain[c2].arr
    /\ \A h1, h2 \in slices.handed : h1 # h2 => h1.slice.arr # h2.slice.arr
    /\ chainArrays \cap handedArrays = {}

C29_ChainsAndPathsAreNotShared ==
    /\ [](chainsAndPathsKeepTheirModules /\ noArrayShared)
    /\ [][\A a \in DOMAIN slices.arrays :
            a \in DOMAIN slices'.arrays /\ slices'.arrays[a] = slices.arrays[a]]_vars

C29_Witness ==
    /\ graph = GraphFork
    /\ to = Mod("d", "")
    /\ \A c \in Chains : task[c].pc = "done"
    /\ Chains = {<<mA>>, <<mA, mB>>, <<mA, mB, mC>>, <<mA, mB, mC, mD>>, <<mA, mB, mC, mD2>>}
    /\ {h.value : h \in slices.handed} = {<<mA, mB, mC, mD>>, <<mA, mB, mC, mD2>>}
    /\ slices.chain[<<mA, mB, mC>>].len = 3
    /\ slices.chain[<<mA, mB, mC>>].cap = 4

(***************************************************************************)
(* C31: flattenTree goes through the tree level by level from the children *)
(* of the root, so that the degree recorded for an identity is the depth   *)
(* of its shallowest occurrence in the tree (1 for a child of the root).   *)
(***************************************************************************)
\* the (identity, depth) pairs of the nodes of deps and below, deps being
\* at depth d
RECURSIVE occurrencesIn(_, _)
occurrencesIn(deps, d) ==
    UNION {{<<identityOf(deps[i].Module), d>>} \cup occurrencesIn(deps[i].Deps, d + 1) :
             i \in 1..Len(deps)}

depthsOf(id, tree) == {o[2] : o \in {x \in occurrencesIn(tree.Deps, 1) : x[1] = id}}
minOf(S) == CHOOSE x \in S : \A y \in S : x <= y
degreesOf(id) == {x.Degree : x \in {y \in elems(list.items) : identityOf(y) = id}}

C31_DegreeIsShallowestDepth ==
    list.done =>
        \A x \in elems(list.items) :
            minOf(degreesOf(identityOf(x))) = minOf(depthsOf(identityOf(x), walked.node))

(***************************************************************************)
(* C32: every item of the list is marked direct exactly when its module    *)
(* version is a child of the root, and its degree is the number of links   *)
(* between the root and an occurrence of it in the tree.                   *)
(***************************************************************************)
C32_DirectIffChildOfRoot ==
    list.done =>
        \A x \in elems(list.items) :
            /\ x.IsDirect <=> (1 \in depthsOf(identityOf(x), walked.node))
            /\ x.Degree \in depthsOf(identityOf(x), walked.node)

(***************************************************************************)
(* C36: every identity that occurs below the root of the tree occurs in    *)
(* the list flattenTree returns, also when it occurs only beneath a node   *)
(* whose identity was met before with another subtree.                     *)
(***************************************************************************)
C36_EveryIdentityIsListed ==
    list.done =>
        {o[1] : o \in occurrencesIn(walked.node.Deps, 1)}
            = {identityOf(x) : x \in elems(list.items)}

(***************************************************************************)
(* C33: a paged query of the store returns an empty next-page token when   *)
(* the page it returns is the last one, and a token only when more rows    *)
(* remain, for every page size, 0 (no limit) included, and when the number *)
(* of rows is a multiple of the page size.                                 *)
(***************************************************************************)
\* the rows of the query of fetch f that come after its page
rowsAfter(f) ==
    LET offset == IF f.PageToken # NoToken THEN decodePageToken(f.PageToken) ELSE 0
    IN  Len(graph[f.mod]) - (offset + Len(f.Modules))

C33_TokenIffMoreRows ==
    \A i \in 1..Len(fetchLog) :
        (fetchLog[i].NextPageToken # NoToken) <=> (rowsAfter(fetchLog[i]) > 0)

(***************************************************************************)
(* C38: against the paging of the store, with the page size the client     *)
(* leaves unset (0, no limit), walkDependencies gets every direct edge of  *)
(* a node exactly once and ends its calls for the node: one call, whose    *)
(* page holds all the edges.                                               *)
(***************************************************************************)
\* the tree below n, n at depth d, holds the edges of the graph, each once,
\* down to maxDepth
RECURSIVE edgesOnce(_, _)
edgesOnce(n, d) ==
    /\ modulesOf(n.Deps) = IF d <= maxDepth THEN graph[n.Module] ELSE <<>>
    /\ \A k \in 1..Len(n.Deps) : edgesOnce(n.Deps[k], d + 1)

C38_UnsetPageSizeOneCallPerNode ==
    pageSize = ClientPageSize =>
        /\ \A i \in 1..Len(stack) :
              /\ ~(stack[i].pc = "fetch" /\ stack[i].k > 0)
              /\ stack[i].pc \in {"range", "call"} =>
                    /\ stack[i].Modules = graph[stack[i].mod]
                    /\ modulesOf(stack[i].node.Deps)
                          = SubSeq(graph[stack[i].mod], 1, stack[i].k - 1)
        /\ \A i \in 1..Len(fetchLog) :
              /\ fetchLog[i].PageToken = NoToken
              /\ fetchLog[i].Modules = graph[fetchLog[i].mod]
        /\ (walked.done /\ walked.err.isNil) => edgesOnce(walked.node, 1)

C38_Witness ==
    /\ pageSize = ClientPageSize
    /\ failAt = 0
    /\ walked.done /\ walked.err.isNil
    /\ Len(graph[from]) = 2
    /\ maxDepth >= 2
    /\ Len(fetchLog) >= 3
    /\ modulesOf(walked.node.Deps) = graph[from]

(***************************************************************************)
(* C34: when a call of op returns an error whose code is not Unavailable,  *)
(* retryOp returns the zero value and that error at once, without another  *)
(* call of op and without a sleep, however many Unavailable failures came  *)
(* before it.                                                              *)
(***************************************************************************)
\* the first k - 1 calls fail with Unavailable and call k fails otherwise
failsOtherwiseAt(k) ==
    /\ \A i \in 1..(k - 1) : unavailable(plan[i])
    /\ ~plan[k].err.isNil /\ plan[k].err.code # "unavailable"

C34_OtherErrorReturnsAtOnce ==
    \A k \in 1..Len(backoffDelaysNoSentinel) + 1 :
        (rtpc # "idle" /\ failsOtherwiseAt(k)) =>
            /\ calls <= k
            /\ Len(slept) <= k - 1
            /\ calls = k => (rtret.done /\ rtpc = "returned")
            /\ ~rtret.done => ENABLED NextRetry
            /\ rtret.done =>
                  /\ rtret = RetryReturned(zero, plan[k].err)
                  /\ calls = k
                  /\ Len(slept) = k - 1
                  /\ ~ENABLED NextRetry

C34_Witness ==
    /\ failsOtherwiseAt(4)
    /\ rtret = RetryReturned(zero, QueryFailedErr)
    /\ plan[4].result # zero
    /\ calls = 4
    /\ Len(slept) = 3

(***************************************************************************)
(* C35: every task of a findPathsBetween call completes in the end and     *)
(* gives its slot back, also when the consumer stops receiving after the   *)
(* first error or cancellation result: no task stays blocked for ever on   *)
(* the send of its result or on a slot.                                    *)
(***************************************************************************)
C35_EveryTaskCompletes == <>[](unfinished = {} /\ holders = {})

(***************************************************************************)
(* C37: without --all the command writes at most one path, whatever the    *)
(* graph and the order in which the tasks run between the consumer's first *)
(* path and their seeing the cancellation.                                 *)
(***************************************************************************)
C37_AtMostOnePathWithoutAll ==
    (~showAll /\ output.written) => Len(output.paths) <= 1

====
